---- MODULE Spec2Model ----
(***************************************************************************)
(* Verification development for chiastamp-next: the proof verification     *)
(* engine (salted digest, Merkle path replay, on-chain anchoring check)    *)
(* and the verify page that sequences the three checks.                    *)
(*                                                                         *)
(* Representation of data                                                  *)
(*   byte string : sequence of byte items [b, h].  A literal byte is       *)
(*                 [b |-> 0..255, h |-> <<>>]; the 32 bytes of             *)
(*                 SHA-256(x) are one atomic item [b |-> -1, h |-> x], so  *)
(*                 the hash is collision-free by construction.             *)
(*   hex string  : sequence of character items [c, h].  A character is     *)
(*                 [c |-> "a", h |-> <<>>]; the 64 hex characters of a     *)
(*                 digest are one atomic item [c |-> "sha256hex", h |-> x] *)
(*                 (lower case) or [c |-> "SHA256HEX", h |-> x] (upper     *)
(*                 case).  Digest items occur at even offsets only.        *)
(*   undefined   : an absent optional string field is the value Undef.     *)
(***************************************************************************)
EXTENDS Integers, Sequences, FiniteSets, TLC

\* ---------------------------------------------------------------- bounds
MaxSteps == 2
MaxCoinRecords == 2
MaxEvents == 3
MaxRefreshes == 1
MaxFileLen == 2
MaxCount == 3
MaxSubmits == 2
MaxSelections == 2

\* ------------------------------------------------------------ characters
Chr(c) == [c |-> c, h |-> <<>>]
Str(chars) == [i \in 1..Len(chars) |-> Chr(chars[i])]
Undef == <<[c |-> "undefined", h |-> <<>>]>>
Byte(n) == [b |-> n, h |-> <<>>]
NaN == -1

HexDigits == <<"0", "1", "2", "3", "4", "5", "6", "7", "8", "9", "a", "b", "c", "d", "e", "f">>

\* String.prototype.toLowerCase on one character
LowerChar(c) ==
    CASE c = "A" -> "a" [] c = "B" -> "b" [] c = "C" -> "c" [] c = "D" -> "d"
      [] c = "E" -> "e" [] c = "F" -> "f" [] c = "Z" -> "z" [] c = "X" -> "x"
      [] c = "SHA256HEX" -> "sha256hex"
      [] OTHER -> c

toLowerCase(s) == [i \in 1..Len(s) |-> [c |-> LowerChar(s[i].c), h |-> s[i].h]]

UpperChar(c) ==
    CASE c = "a" -> "A" [] c = "b" -> "B" [] c = "c" -> "C" [] c = "d" -> "D"
      [] c = "e" -> "E" [] c = "f" -> "F" [] c = "z" -> "Z" [] c = "x" -> "X"
      [] c = "sha256hex" -> "SHA256HEX"
      [] OTHER -> c

toUpperCase(s) == [i \in 1..Len(s) |-> [c |-> UpperChar(s[i].c), h |-> s[i].h]]

\* value of one hex digit, NaN when the character is not a hex digit
DigitValue(c) ==
    IF \E i \in 1..16 : HexDigits[i] = LowerChar(c)
    THEN (CHOOSE i \in 1..16 : HexDigits[i] = LowerChar(c)) - 1
    ELSE NaN

\* parseInt(s, 16) of a substring of one or two characters: the longest
\* prefix of hex digits is converted, NaN when there is none
parseInt16(s) ==
    IF Len(s) = 0 \/ DigitValue(s[1].c) = NaN THEN NaN
    ELSE IF Len(s) = 1 \/ DigitValue(s[2].c) = NaN THEN DigitValue(s[1].c)
    ELSE 16 * DigitValue(s[1].c) + DigitValue(s[2].c)

\* storing a number into a Uint8Array element: NaN becomes 0
ToUint8(n) == IF n = NaN THEN 0 ELSE n % 256

IsDigestChunk(ch) == ch.c \in {"sha256hex", "SHA256HEX"}

\* ------------------------------------------------------- hex <-> bytes
\* new Uint8Array(hex.length / 2) truncates, so the last character of an
\* odd-length string is dropped; a pair that is not hex is stored as 0.
RECURSIVE hexToBytes(_)
hexToBytes(hex) ==
    IF hex = <<>> THEN <<>>
    ELSE IF IsDigestChunk(hex[1])
         THEN <<[b |-> -1, h |-> hex[1].h]>> \o hexToBytes(Tail(hex))
    ELSE IF Len(hex) = 1 THEN <<>>
    ELSE <<Byte(ToUint8(parseInt16(SubSeq(hex, 1, 2))))>>
             \o hexToBytes(SubSeq(hex, 3, Len(hex)))

RECURSIVE bytesToHex(_)
bytesToHex(bytes) ==
    IF bytes = <<>> THEN <<>>
    ELSE LET x == Head(bytes) IN
         (IF x.b = -1
          THEN <<[c |-> "sha256hex", h |-> x.h]>>
          ELSE <<Chr(HexDigits[(x.b \div 16) + 1]), Chr(HexDigits[(x.b % 16) + 1])>>)
         \o bytesToHex(Tail(bytes))

\* crypto.subtle.digest("SHA-256", data)
sha256(data) == <<[b |-> -1, h |-> data]>>

hashPair(left, right) == sha256(left \o right)

\* ----------------------------------------------------------- outcomes
null == [null |-> TRUE]

\* A VerificationResult.  message is the template text, args the hex strings
\* interpolated into it, texts the other words and nums the numbers
\* interpolated into it.  "undefined" stands for an absent failureReason,
\* -1 for an absent timestamp / blockIndex.
Outcome(step, passed, message, args) ==
    [step |-> step, passed |-> passed, message |-> message, args |-> args,
     texts |-> <<>>, nums |-> <<>>, failureReason |-> "undefined",
     timestamp |-> -1, blockIndex |-> -1]

NoArgs == <<>>

\* ------------------------------------------------------- SaltedDigest
\* a File is its content, a byte string
calculateSHA256(file) == bytesToHex(sha256(file))

hexStringToUint8Array(hex) == hexToBytes(hex)

calculateSaltedSHA256(file, salt) ==
    bytesToHex(sha256(file \o hexStringToUint8Array(salt)))

\* ------------------------------------------------------ FileHashCheck
\* the proof member of an artifact that has none
UndefProof == <<[hash |-> Undef, position |-> "undefined", keys |-> <<>>]>>

\* proof.leaf_hash.toLowerCase() of an absent leaf_hash throws a TypeError
verifyFileHashThrows(proof) == proof.leaf_hash = Undef

verifyFileHash_caseSensitive(fileHash, proof) ==
    LET hashMatch == fileHash = proof.leaf_hash IN
    Outcome("File Hash Match", hashMatch,
            IF hashMatch THEN "File hash matches the proof leaf hash"
            ELSE "File hash (%1) does not match proof leaf hash (%2)",
            IF hashMatch THEN NoArgs ELSE <<fileHash, proof.leaf_hash>>)

verifyFileHash(fileHash, proof) ==
    LET hashMatch == toLowerCase(fileHash) = toLowerCase(proof.leaf_hash) IN
    Outcome("File Hash Match", hashMatch,
            IF hashMatch THEN "File hash matches the proof leaf hash"
            ELSE "File hash (%1) does not match proof leaf hash (%2)",
            IF hashMatch THEN NoArgs ELSE <<fileHash, proof.leaf_hash>>)

\* ----------------------------------------------------- MerkleVerifier
\* one iteration of the loop over proof.proof
foldStep_swapped(computed, step) ==
    LET sibling == hexToBytes(step.hash) IN
    IF step.position = "left" THEN hashPair(computed, sibling)
    ELSE hashPair(sibling, computed)

foldStep_ignoresPosition(computed, step) ==
    hashPair(hexToBytes(step.hash), computed)

foldStep_unknownAsLeft(computed, step) ==
    LET sibling == hexToBytes(step.hash) IN
    IF step.position # "right" THEN hashPair(sibling, computed)
    ELSE hashPair(computed, sibling)

foldStep(computed, step) ==
    LET sibling == hexToBytes(step.hash) IN
    IF step.position = "left" THEN hashPair(sibling, computed)
    ELSE hashPair(computed, sibling)

RECURSIVE foldSteps(_, _)
foldSteps(computed, steps) ==
    IF steps = <<>> THEN computed
    ELSE foldSteps(foldStep(computed, Head(steps)), Tail(steps))

\* hex.length of an undefined value throws a TypeError
hexToBytesThrows(hex) == hex = Undef

\* an error thrown inside the try block: by hexToBytes, or by
\* proof.root_hash.toLowerCase() when root_hash is absent
multiLeafThrows(proof) ==
    \/ hexToBytesThrows(proof.leaf_hash)
    \/ \E i \in 1..Len(proof.proof) : hexToBytesThrows(proof.proof[i].hash)
    \/ proof.root_hash = Undef

\* an error thrown outside the try block, which rejects the promise
\* verifyLocalProof returns: proof.proof.length of an absent proof, or
\* toLowerCase of an absent root_hash / leaf_hash in the single-leaf branch
verifyLocalProofThrows(proof) ==
    \/ proof.proof = UndefProof
    \/ /\ Len(proof.proof) = 0
       /\ (proof.root_hash = Undef \/ proof.leaf_hash = Undef)

singleLeafOutcome_caseSensitive(proof) ==
    LET rootMatchesLeaf == proof.root_hash = proof.leaf_hash IN
    Outcome("Local Proof (Single Leaf)", rootMatchesLeaf,
            IF rootMatchesLeaf THEN "Single leaf tree: root hash matches leaf hash"
            ELSE "Single leaf tree: root hash (%1) does not match leaf hash (%2)",
            IF rootMatchesLeaf THEN NoArgs ELSE <<proof.root_hash, proof.leaf_hash>>)

singleLeafOutcome(proof) ==
    LET rootMatchesLeaf == toLowerCase(proof.root_hash) = toLowerCase(proof.leaf_hash) IN
    Outcome("Local Proof (Single Leaf)", rootMatchesLeaf,
            IF rootMatchesLeaf THEN "Single leaf tree: root hash matches leaf hash"
            ELSE "Single leaf tree: root hash (%1) does not match leaf hash (%2)",
            IF rootMatchesLeaf THEN NoArgs ELSE <<proof.root_hash, proof.leaf_hash>>)

multiLeafOutcome(proof) ==
    IF multiLeafThrows(proof)
    THEN Outcome("Local Proof (Multi-Leaf)", FALSE,
                 "Error verifying multi-leaf proof: %error", NoArgs)
    ELSE LET computed == foldSteps(hexToBytes(proof.leaf_hash), proof.proof)
             computedHex == bytesToHex(computed)
             isValid == toLowerCase(computedHex) = toLowerCase(proof.root_hash)
         IN Outcome("Local Proof (Multi-Leaf)", isValid,
                    IF isValid
                    THEN "Multi-leaf tree: computed root (%1) matches proof root (%2)"
                    ELSE "Multi-leaf tree: computed root (%1) does not match proof root (%2)",
                    <<computedHex, proof.root_hash>>)

verifyLocalProof(proof) ==
    IF Len(proof.proof) = 0 THEN singleLeafOutcome(proof)
    ELSE multiLeafOutcome(proof)

\* number of crypto.subtle.digest calls one verifyLocalProof invocation
\* makes: hashPair runs once per step, until a step's hash cannot be decoded
RECURSIVE digestCallsOf(_, _)
digestCallsOf(leaf, steps) ==
    IF steps = <<>> \/ steps = UndefProof \/ hexToBytesThrows(leaf)
       \/ hexToBytesThrows(Head(steps).hash)
    THEN 0
    ELSE 1 + digestCallsOf(leaf, Tail(steps))

\* ------------------------------------------------ ChainAnchorVerifier
formatTimeDelta_alwaysPlural(deltaSeconds) ==
    LET minutes == deltaSeconds \div 60
        hours == deltaSeconds \div 3600
        days == deltaSeconds \div 86400
        weeks == deltaSeconds \div 604800
        months == deltaSeconds \div 2592000
        years == deltaSeconds \div 31536000
        text(n, units) == [n |-> n, unit |-> units]
    IN IF years > 0 THEN text(years, "years ago")
       ELSE IF months > 0 THEN text(months, "months ago")
       ELSE IF weeks > 0 THEN text(weeks, "weeks ago")
       ELSE IF days > 0 THEN text(days, "days ago")
       ELSE IF hours > 0 THEN text(hours, "hours ago")
       ELSE IF minutes > 0 THEN text(minutes, "minutes ago")
       ELSE [n |-> 0, unit |-> "just now"]

formatTimeDelta_magnitude(deltaSeconds) ==
    LET d == IF deltaSeconds < 0 THEN 0 - deltaSeconds ELSE deltaSeconds
        minutes == d \div 60
        hours == d \div 3600
        days == d \div 86400
        weeks == d \div 604800
        months == d \div 2592000
        years == d \div 31536000
        text(n, unit, units) == [n |-> n, unit |-> IF n = 1 THEN unit ELSE units]
    IN IF years > 0 THEN text(years, "year ago", "years ago")
       ELSE IF months > 0 THEN text(months, "month ago", "months ago")
       ELSE IF weeks > 0 THEN text(weeks, "week ago", "weeks ago")
       ELSE IF days > 0 THEN text(days, "day ago", "days ago")
       ELSE IF hours > 0 THEN text(hours, "hour ago", "hours ago")
       ELSE IF minutes > 0 THEN text(minutes, "minute ago", "minutes ago")
       ELSE [n |-> 0, unit |-> "just now"]

\* the text is kept as the count and the words that follow it
formatTimeDelta(deltaSeconds) ==
    LET minutes == deltaSeconds \div 60
        hours == deltaSeconds \div 3600
        days == deltaSeconds \div 86400
        weeks == deltaSeconds \div 604800
        months == deltaSeconds \div 2592000
        years == deltaSeconds \div 31536000
        text(n, unit, units) == [n |-> n, unit |-> IF n = 1 THEN unit ELSE units]
    IN IF years > 0 THEN text(years, "year ago", "years ago")
       ELSE IF months > 0 THEN text(months, "month ago", "months ago")
       ELSE IF weeks > 0 THEN text(weeks, "week ago", "weeks ago")
       ELSE IF days > 0 THEN text(days, "day ago", "days ago")
       ELSE IF hours > 0 THEN text(hours, "hour ago", "hours ago")
       ELSE IF minutes > 0 THEN text(minutes, "minute ago", "minutes ago")
       ELSE [n |-> 0, unit |-> "just now"]

isConfirmedField(proof) == proof.confirmed = TRUE
hasHeaderHash(proof) == proof.header_hash # Undef
hasCoinId(proof) == proof.coin_id # Undef

allFieldsPresent(proof) ==
    isConfirmedField(proof) /\ hasHeaderHash(proof) /\ hasCoinId(proof)

isProofConfirmed_ignoresCoinId(proof) ==
    proof.confirmed = TRUE /\ proof.header_hash # Undef

\* an absent member and a null member are both the value Undef
isProofConfirmed(proof) ==
    /\ proof.confirmed = TRUE
    /\ proof.header_hash # Undef
    /\ proof.coin_id # Undef

missingFields_firstOnly(proof) ==
    IF ~isConfirmedField(proof) THEN <<"confirmed">>
    ELSE IF ~hasHeaderHash(proof) THEN <<"header_hash">>
    ELSE IF ~hasCoinId(proof) THEN <<"coin_id">>
    ELSE <<>>

missingFields(proof) ==
    (IF ~isConfirmedField(proof) THEN <<"confirmed">> ELSE <<>>)
    \o (IF ~hasHeaderHash(proof) THEN <<"header_hash">> ELSE <<>>)
    \o (IF ~hasCoinId(proof) THEN <<"coin_id">> ELSE <<>>)

ChainOutcome(passed, message, args, reason) ==
    [Outcome("On-Chain Verification", passed, message, args)
        EXCEPT !.failureReason = reason]

missingDataOutcome(proof) ==
    [ChainOutcome(FALSE, "Cannot verify on-chain: missing or invalid fields (%texts)",
                  NoArgs, "missing-data")
        EXCEPT !.texts = missingFields(proof)]

caughtErrorOutcome_untyped ==
    ChainOutcome(FALSE, "Error verifying on-chain: %error", NoArgs, "undefined")

caughtErrorOutcome ==
    ChainOutcome(FALSE, "Error verifying on-chain: %error", NoArgs, "api-error")

\* s.startsWith("0x") ? s.substring(2) : s
startsWith0x(s) == Len(s) >= 2 /\ s[1].c = "0" /\ s[2].c = "x"
stripHexPrefix_never(s) == s
stripHexPrefix(s) == IF startsWith0x(s) THEN SubSeq(s, 3, Len(s)) ELSE s

coinMatches_ignoringCase(record, proof) ==
    LET parentCoinInfo == record.parent_coin_info IN
    IF parentCoinInfo = Undef \/ parentCoinInfo = <<>> THEN FALSE
    ELSE toLowerCase(stripHexPrefix(parentCoinInfo)) = toLowerCase(proof.coin_id)

\* the callback of coin_records.find
coinMatches_anyRecord(record, proof) ==
    LET parentCoinInfo == record.parent_coin_info IN
    ~(parentCoinInfo = Undef \/ parentCoinInfo = <<>>)

coinMatches(record, proof) ==
    LET parentCoinInfo == record.parent_coin_info IN
    IF parentCoinInfo = Undef \/ parentCoinInfo = <<>> THEN FALSE
    ELSE stripHexPrefix(parentCoinInfo) = proof.coin_id

\* Array.prototype.find: the first matching record, null when there is none
findMatchingCoin(records, proof) ==
    IF \E i \in 1..Len(records) : coinMatches(records[i], proof)
    THEN records[CHOOSE i \in 1..Len(records) :
                    /\ coinMatches(records[i], proof)
                    /\ \A j \in 1..(i - 1) : ~coinMatches(records[j], proof)]
    ELSE null

CoinRequest(proof) ==
    [url |-> "/get_coin_records_by_hint", hint |-> proof.root_hash,
     include_spent_coins |-> TRUE, height |-> -1]

BlockRequest_nextHeight(coin) ==
    [url |-> "/get_block_record_by_height", hint |-> <<>>,
     include_spent_coins |-> FALSE, height |-> coin.confirmed_block_index + 1]

BlockRequest(coin) ==
    [url |-> "/get_block_record_by_height", hint |-> <<>>,
     include_spent_coins |-> FALSE, height |-> coin.confirmed_block_index]

\* A response is [kind, ok, success, payload]: the fetch promise rejects
\* (kind "reject"), or resolves with response.ok, and then response.json()
\* throws (kind "badjson") or yields a body (kind "json") with its success
\* flag and its coin_records / block_record (UndefPayload when absent).
UndefPayload == <<[undefined |-> TRUE]>>

coinResponseThrows_ignoresStatus(resp) ==
    resp.kind = "reject" \/ resp.kind = "badjson"

\* the part of the try block after the first fetch settles
coinResponseThrows(resp) ==
    resp.kind = "reject" \/ ~resp.ok \/ resp.kind = "badjson"

coinResponseUnsuccessful(resp) ==
    ~resp.success \/ resp.payload = UndefPayload

blockResponseThrows(resp) ==
    \/ resp.kind = "reject" \/ ~resp.ok \/ resp.kind = "badjson"
    \/ /\ resp.success
       /\ resp.payload # UndefPayload
       /\ resp.payload[1].header_hash = Undef

blockResponseUnsuccessful(resp) ==
    ~resp.success \/ resp.payload = UndefPayload

headerOutcome_noStrip(proof, matchingCoin, blockRecord, currentTime) ==
    LET blockHeaderHash == blockRecord.header_hash
        timeAgo == formatTimeDelta(currentTime - matchingCoin.timestamp)
    IN IF blockHeaderHash = proof.header_hash
       THEN [Outcome("On-Chain Verification", TRUE,
                     "Proof fully verified on-chain: coin ID %1 found in block %n1 with matching header hash and merkle root. File was included in block %n2 %t1.",
                     <<proof.coin_id>>)
                EXCEPT !.nums = <<matchingCoin.confirmed_block_index, timeAgo.n>>,
                       !.texts = <<timeAgo.unit>>,
                       !.timestamp = matchingCoin.timestamp,
                       !.blockIndex = matchingCoin.confirmed_block_index]
       ELSE ChainOutcome(FALSE,
                "Header hash mismatch: proof header hash (%1) does not match block header hash (%2)",
                <<proof.header_hash, blockHeaderHash>>, "invalid-data")

headerOutcome(proof, matchingCoin, blockRecord, currentTime) ==
    LET blockHeaderHash == blockRecord.header_hash
        normalizedBlockHeaderHash == stripHexPrefix(blockHeaderHash)
        normalizedProofHeaderHash == stripHexPrefix(proof.header_hash)
        timeAgo == formatTimeDelta(currentTime - matchingCoin.timestamp)
    IN IF normalizedBlockHeaderHash = normalizedProofHeaderHash
       THEN [Outcome("On-Chain Verification", TRUE,
                     "Proof fully verified on-chain: coin ID %1 found in block %n1 with matching header hash and merkle root. File was included in block %n2 %t1.",
                     <<proof.coin_id>>)
                EXCEPT !.nums = <<matchingCoin.confirmed_block_index, timeAgo.n>>,
                       !.texts = <<timeAgo.unit>>,
                       !.timestamp = matchingCoin.timestamp,
                       !.blockIndex = matchingCoin.confirmed_block_index]
       ELSE ChainOutcome(FALSE,
                "Header hash mismatch: proof header hash (%1) does not match block header hash (%2)",
                <<proof.header_hash, blockHeaderHash>>, "invalid-data")

\* ------------------------------------------- verifyOnChainCommitment
\* the on-chain stage the verify page calls
verifyOnChainCommitment(proof) ==
    IF ~allFieldsPresent(proof)
    THEN [Outcome("On-Chain Commitment", FALSE,
                  "Cannot verify on-chain commitment: missing or invalid fields (%texts)",
                  NoArgs)
             EXCEPT !.texts = missingFields(proof)]
    ELSE Outcome("On-Chain Commitment", TRUE,
                 "Proof confirmed on-chain with header hash: %1 and coin ID: %2",
                 <<proof.header_hash, proof.coin_id>>)

\* ------------------------------------------- VerificationOrchestrator
\* A run is one invocation of runVerification with the originalFileHash and
\* proofData of the render that started it.  calls lists the verifier
\* functions the run has invoked, in order.
NullResults == [fileHashMatch |-> null, localProof |-> null, onChainCommitment |-> null]

Run(hash, proof, pc, results, calls) ==
    [hash |-> hash, proof |-> proof, pc |-> pc, results |-> results, calls |-> calls]

localProofPlaceholder ==
    Outcome("Local Proof", FALSE,
            "Cannot verify local proof: file hash does not match", NoArgs)

onChainPlaceholderFileHash ==
    Outcome("On-Chain Commitment", FALSE,
            "Cannot verify on-chain commitment: file hash does not match", NoArgs)

onChainPlaceholderLocalProof ==
    Outcome("On-Chain Commitment", FALSE,
            "Cannot verify on-chain commitment: local proof is invalid", NoArgs)

\* runVerification from its call to its first await (the call of
\* verifyLocalProof) or, when the file hash does not match, to its end.
\* pc "threw": an error left runVerification, whose promise rejects.
runVerificationStart_samePlaceholder(hash, proof) ==
    IF verifyFileHashThrows(proof)
    THEN Run(hash, proof, "threw", NullResults, <<"verifyFileHash">>)
    ELSE
    LET fileHashMatch == verifyFileHash(hash, proof) IN
    IF fileHashMatch.passed
    THEN Run(hash, proof, "awaitLocalProof",
             [NullResults EXCEPT !.fileHashMatch = fileHashMatch],
             <<"verifyFileHash", "verifyLocalProof">>)
    ELSE Run(hash, proof, "done",
             [fileHashMatch |-> fileHashMatch,
              localProof |-> localProofPlaceholder,
              onChainCommitment |-> onChainPlaceholderLocalProof],
             <<"verifyFileHash">>)

runVerificationStart(hash, proof) ==
    IF verifyFileHashThrows(proof)
    THEN Run(hash, proof, "threw", NullResults, <<"verifyFileHash">>)
    ELSE
    LET fileHashMatch == verifyFileHash(hash, proof) IN
    IF fileHashMatch.passed
    THEN Run(hash, proof, "awaitLocalProof",
             [NullResults EXCEPT !.fileHashMatch = fileHashMatch],
             <<"verifyFileHash", "verifyLocalProof">>)
    ELSE Run(hash, proof, "done",
             [fileHashMatch |-> fileHashMatch,
              localProof |-> localProofPlaceholder,
              onChainCommitment |-> onChainPlaceholderFileHash],
             <<"verifyFileHash">>)

\* runVerification from the settling of verifyLocalProof to its end
runVerificationResume_noPlaceholder(run) ==
    IF verifyLocalProofThrows(run.proof) THEN [run EXCEPT !.pc = "threw"]
    ELSE
    LET localProof == verifyLocalProof(run.proof) IN
    IF localProof.passed
    THEN [run EXCEPT !.pc = "done",
                     !.results.localProof = localProof,
                     !.results.onChainCommitment = verifyOnChainCommitment(run.proof),
                     !.calls = Append(@, "verifyOnChainCommitment")]
    ELSE [run EXCEPT !.pc = "done",
                     !.results.localProof = localProof]

runVerificationResume_alwaysChain(run) ==
    IF verifyLocalProofThrows(run.proof) THEN [run EXCEPT !.pc = "threw"]
    ELSE
    LET localProof == verifyLocalProof(run.proof) IN
    [run EXCEPT !.pc = "done",
                !.results.localProof = localProof,
                !.results.onChainCommitment = verifyOnChainCommitment(run.proof),
                !.calls = Append(@, "verifyOnChainCommitment")]

runVerificationResume(run) ==
    IF verifyLocalProofThrows(run.proof) THEN [run EXCEPT !.pc = "threw"]
    ELSE
    LET localProof == verifyLocalProof(run.proof) IN
    IF localProof.passed
    THEN [run EXCEPT !.pc = "done",
                     !.results.localProof = localProof,
                     !.results.onChainCommitment = verifyOnChainCommitment(run.proof),
                     !.calls = Append(@, "verifyOnChainCommitment")]
    ELSE [run EXCEPT !.pc = "done",
                     !.results.localProof = localProof,
                     !.results.onChainCommitment = onChainPlaceholderLocalProof]

\* verifyLocalProof suspends at crypto.subtle.digest only; when it makes no
\* digest call, the await in runVerification resumes in the same turn of
\* the event loop, before any other handler can run
localProofSuspends(proof) == digestCallsOf(proof.leaf_hash, proof.proof) > 0

\* runVerification from its call to the point where control returns to the
\* event loop
runVerificationTurn(hash, proof) ==
    LET run == runVerificationStart(hash, proof) IN
    IF run.pc = "awaitLocalProof" /\ ~localProofSuspends(proof)
    THEN runVerificationResume(run)
    ELSE run

\* ------------------------------------------------------ refresh comparison
\* JSON.stringify of a proof array: each step's members in insertion order
JSONstringify(proof) ==
    IF proof = UndefProof THEN <<<<[key |-> "undefined", value |-> <<>>]>>>>
    ELSE [i \in 1..Len(proof) |->
            [k \in 1..Len(proof[i].keys) |->
                [key |-> proof[i].keys[k],
                 value |-> IF proof[i].keys[k] = "hash" THEN proof[i].hash
                           ELSE <<Chr(proof[i].position)>>]]]

compareProofs(currentProof, updatedProof) ==
    \/ currentProof.confirmed # updatedProof.confirmed
    \/ currentProof.header_hash # updatedProof.header_hash
    \/ currentProof.coin_id # updatedProof.coin_id
    \/ currentProof.root_hash # updatedProof.root_hash
    \/ currentProof.leaf_hash # updatedProof.leaf_hash
    \/ JSONstringify(currentProof.proof) # JSONstringify(updatedProof.proof)

\* ---------------------------------------------------------- artifacts
Artifact(confirmed, header_hash, coin_id, root_hash, leaf_hash, proof, salt) ==
    [confirmed |-> confirmed, header_hash |-> header_hash, coin_id |-> coin_id,
     root_hash |-> root_hash, leaf_hash |-> leaf_hash, proof |-> proof,
     salt |-> salt]

\* keys is the order in which the members of the parsed object were inserted
ProofStep(hash, position) ==
    [hash |-> hash, position |-> position, keys |-> <<"hash", "position">>]

SeqsUpTo(S, n) == UNION {[1..k -> S] : k \in 0..n}

File1 == <<Byte(1)>>
File2 == <<Byte(2)>>
Files == {File1, File2}
Salt1 == Str(<<"0", "5">>)
Header1 == Str(<<"a", "a">>)
Coin1 == Str(<<"c", "c">>)

\* ------------------------------------------------------------- state
VARIABLES
    \* the verify page (VerifyPage component state)
    originalFile, originalFileHash, isCalculatingHash, proofData,
    proofParseError, verificationResults, isCheckingForUpdate, updateMessage,
    hashJobs,       \* calculateSHA256 promises that have not settled yet
    runs,           \* the runVerification invocations started so far
    events,         \* number of files the user has handed to the page so far
    refreshes,      \* handleCheckForUpdatedProof invocations awaiting their fetch
    downloads,      \* the proof files downloadUpdatedProof has written, each
                    \* with the artifact the page held when it asked
    \* the stamping page (Home component state)
    sHash, sSalt, sFileName, sIsCalculating, sIsSubmitting,
    sJobs,          \* processFile invocations awaiting calculateSaltedSHA256
    sSubmits,       \* submitToServer invocations awaiting their fetch
    sDownloads,     \* the proof files submitToServer has written
    sSelected,      \* the files handed to processFile so far, in order
    \* one compareProofs invocation
    rCurrent, rUpdated, rHasChanges,
    \* one verifyFileHash invocation
    fFileHash, fProof, fResult,
    \* one formatTimeDelta invocation
    tDelta, tText,
    \* one calculateSaltedSHA256 invocation
    dFile, dSalt, dResult,
    \* one verifyLocalProof invocation
    mProof, mResult, digestCalls,
    \* one verifyOnChainVerification invocation
    cProof, cPc, cMatchingCoin, cResult,
    cCoinResponse,  \* what the coin-index fetch settled with
    cBlockResponse, \* what the block-index fetch settled with
    cCurrentTime,   \* Math.floor(Date.now() / 1000) as read on the passing path
    \* fetch requests issued so far
    netCalls

pageVars == <<originalFile, originalFileHash, isCalculatingHash, proofData,
              proofParseError, verificationResults, isCheckingForUpdate,
              updateMessage, hashJobs, runs, events, refreshes, downloads>>
merkleVars == <<mProof, mResult, digestCalls>>
compareVars == <<rCurrent, rUpdated, rHasChanges>>
digestVars == <<dFile, dSalt, dResult>>
fileHashVars == <<fFileHash, fProof, fResult>>
ageVars == <<tDelta, tText>>
stampVars == <<sHash, sSalt, sFileName, sIsCalculating, sIsSubmitting, sJobs,
               sSubmits, sDownloads, sSelected>>
otherVars == <<merkleVars, compareVars, digestVars, fileHashVars, ageVars,
               stampVars>>
chainVars == <<cProof, cPc, cMatchingCoin, cResult, cCoinResponse,
               cBlockResponse, cCurrentTime>>
vars == <<pageVars, otherVars, chainVars, netCalls>>

NoFile == <<[b |-> -2, h |-> <<>>]>>

PageIdle ==
    /\ originalFile = NoFile
    /\ originalFileHash = <<>>
    /\ isCalculatingHash = FALSE
    /\ proofData = null
    /\ proofParseError = ""
    /\ verificationResults = NullResults
    /\ isCheckingForUpdate = FALSE
    /\ updateMessage = ""
    /\ hashJobs = <<>>
    /\ runs = <<>>
    /\ events = 0
    /\ refreshes = <<>>
    /\ downloads = <<>>

CompareIdle == rCurrent = null /\ rUpdated = null /\ rHasChanges = <<>>

DigestIdle == dFile = NoFile /\ dSalt = Undef /\ dResult = Undef

MerkleIdle == mProof = null /\ mResult = null /\ digestCalls = 0

FileHashIdle == fFileHash = Undef /\ fProof = null /\ fResult = null

AgeIdle == tDelta = 0 /\ tText = null

StampIdle ==
    /\ sHash = <<>>
    /\ sSalt = <<>>
    /\ sFileName = ""
    /\ sIsCalculating = FALSE
    /\ sIsSubmitting = FALSE
    /\ sJobs = <<>>
    /\ sSubmits = <<>>
    /\ sDownloads = <<>>
    /\ sSelected = <<>>

ChainIdle ==
    /\ cProof = null
    /\ cPc = "idle"
    /\ cMatchingCoin = null
    /\ cResult = null
    /\ cCoinResponse = null
    /\ cBlockResponse = null
    /\ cCurrentTime = -1

\* ------------------------------------- MerkleVerifier as a function
MerkleLeaves ==
    {Str(<<"a", "b", "1", "2">>), Str(<<"A", "B", "1", "2">>),
     Str(<<"0", "1", "0", "1">>), Str(<<"z", "z">>), Str(<<"a", "b", "c">>),
     calculateSHA256(File1)}

MerkleStepHashes == {Str(<<"0", "1">>), Str(<<"z", "z">>), Undef}

\* position values a parsed proof file can carry besides the two of the
\* Position enum: another letter case, an unknown word, no position member
OtherPositions == {"LEFT", "up", "undefined"}

MerkleSteps == {ProofStep(h, p) : h \in MerkleStepHashes, p \in {"left", "right"}}

OtherSteps == {ProofStep(Str(<<"0", "1">>), p) : p \in OtherPositions \cup {"left"}}

flipPosition(step) ==
    ProofStep(step.hash, IF step.position = "left" THEN "right" ELSE "left")

flipStep(steps, i) == [steps EXCEPT ![i] = flipPosition(steps[i])]

\* root candidates for a leaf and a path: the root the path leads to (in
\* either letter case), the root of the path with its first step flipped,
\* the leaf itself (in either letter case) and an unrelated string
MerkleRoots(leaf, steps) ==
    LET p == [leaf_hash |-> leaf, proof |-> steps, root_hash |-> leaf]
        good == IF multiLeafThrows(p) THEN {}
                ELSE {bytesToHex(foldSteps(hexToBytes(leaf), steps)),
                      toUpperCase(bytesToHex(foldSteps(hexToBytes(leaf), steps)))}
        flipped == IF multiLeafThrows(p) \/ steps = <<>> THEN {}
                   ELSE {bytesToHex(foldSteps(hexToBytes(leaf), flipStep(steps, 1)))}
    IN good \cup flipped \cup {leaf, toUpperCase(leaf), Str(<<"a", "b", "1", "2">>)}

MerkleArtifacts ==
    UNION {{Artifact(FALSE, Undef, Undef, r, l, st, Undef) : r \in MerkleRoots(l, st)} :
              l \in MerkleLeaves,
              st \in SeqsUpTo(MerkleSteps, MaxSteps) \cup SeqsUpTo(OtherSteps, MaxSteps)}

InitMerkle ==
    /\ mProof \in MerkleArtifacts
    /\ mResult = null
    /\ digestCalls = 0
    /\ CompareIdle
    /\ DigestIdle
    /\ PageIdle
    /\ ChainIdle
    /\ netCalls = <<>>
    /\ FileHashIdle
    /\ AgeIdle
    /\ StampIdle

\* verifyLocalProof(mProof) is called and returns
CallVerifyLocalProof ==
    /\ mProof # null
    /\ mResult = null
    /\ mResult' = verifyLocalProof(mProof)
    /\ digestCalls' = IF Len(mProof.proof) = 0 THEN 0
                      ELSE digestCallsOf(mProof.leaf_hash, mProof.proof)
    /\ UNCHANGED <<mProof, compareVars, digestVars, fileHashVars, ageVars, stampVars,
                   pageVars, chainVars, netCalls>>

NextMerkle == CallVerifyLocalProof

SpecMerkle == InitMerkle /\ [][NextMerkle]_vars

\* ---------------------------------- refresh comparison as a function
\* a step whose members were inserted in the order position, hash
ProofStepPositionFirst(hash, position) ==
    [hash |-> hash, position |-> position, keys |-> <<"position", "hash">>]

CompareSteps ==
    {ProofStep(Str(<<"0", "1">>), "left"), ProofStep(Str(<<"0", "1">>), "right"),
     ProofStep(Str(<<"0", "2">>), "left"),
     ProofStepPositionFirst(Str(<<"0", "1">>), "left")}

CompareProofs == SeqsUpTo(CompareSteps, MaxSteps)

CompareBase ==
    Artifact(FALSE, Undef, Undef, Str(<<"a", "b", "1", "2">>),
             Str(<<"a", "b", "1", "2">>), <<>>, Salt1)

\* the base artifact and the artifacts that differ from it in one member
CompareVariants ==
    {CompareBase,
     [CompareBase EXCEPT !.confirmed = TRUE],
     [CompareBase EXCEPT !.header_hash = Header1],
     [CompareBase EXCEPT !.coin_id = Coin1],
     [CompareBase EXCEPT !.root_hash = Str(<<"A", "B", "1", "2">>)],
     [CompareBase EXCEPT !.leaf_hash = Str(<<"0", "1", "0", "1">>)],
     [CompareBase EXCEPT !.salt = Undef]}

InitCompare ==
    /\ rCurrent \in {[CompareBase EXCEPT !.proof = p] : p \in CompareProofs}
    /\ rUpdated \in {[v EXCEPT !.proof = p] : v \in CompareVariants, p \in CompareProofs}
    /\ rHasChanges = <<>>
    /\ PageIdle
    /\ MerkleIdle
    /\ DigestIdle
    /\ ChainIdle
    /\ netCalls = <<>>
    /\ FileHashIdle
    /\ AgeIdle
    /\ StampIdle

\* compareProofs(rCurrent, rUpdated) is called and returns
CallCompareProofs ==
    /\ rCurrent # null
    /\ rHasChanges = <<>>
    /\ rHasChanges' = <<compareProofs(rCurrent, rUpdated)>>
    /\ UNCHANGED <<rCurrent, rUpdated, merkleVars, digestVars, fileHashVars, ageVars,
                   stampVars, pageVars, chainVars,
                   netCalls>>

NextCompare == CallCompareProofs

SpecCompare == InitCompare /\ [][NextCompare]_vars

\* ------------------------------------------ SaltedDigest as a function
DigestFiles == SeqsUpTo({Byte(0), Byte(1), Byte(5)}, MaxFileLen)

DigestSalts ==
    {<<>>, Str(<<"0", "5">>), Str(<<"0", "5", "0", "0">>), Str(<<"A", "b">>),
     Str(<<"5">>), Str(<<"0">>), Str(<<"0", "5", "a">>), Str(<<"z", "z">>)}

InitDigest ==
    /\ dFile \in DigestFiles
    /\ dSalt \in DigestSalts
    /\ dResult = Undef
    /\ PageIdle
    /\ MerkleIdle
    /\ CompareIdle
    /\ ChainIdle
    /\ netCalls = <<>>
    /\ FileHashIdle
    /\ AgeIdle
    /\ StampIdle

\* calculateSaltedSHA256(dFile, dSalt) is called and resolves
CallCalculateSaltedSHA256 ==
    /\ dSalt # Undef
    /\ dResult = Undef
    /\ dResult' = calculateSaltedSHA256(dFile, dSalt)
    /\ UNCHANGED <<dFile, dSalt, merkleVars, compareVars, fileHashVars, ageVars,
                   stampVars, pageVars, chainVars,
                   netCalls>>

NextDigest == CallCalculateSaltedSHA256

SpecDigest == InitDigest /\ [][NextDigest]_vars

\* ------------------------------------- FileHashCheck as a function
FileHashStrings ==
    {<<>>, Str(<<"a", "b", "1", "2">>), Str(<<"A", "B", "1", "2">>),
     Str(<<"A", "b", "1", "2">>), Str(<<"a", "b", "1", "3">>),
     Str(<<"a", "b", "1">>), Str(<<"a", "d", "1", "2">>),
     calculateSHA256(File1), toUpperCase(calculateSHA256(File1)),
     calculateSHA256(File2), calculateSaltedSHA256(File1, Salt1)}

FileHashArtifacts ==
    {Artifact(FALSE, Undef, Undef, l, l, <<>>, Undef) :
        l \in FileHashStrings \cup {Undef}}

\* the call did not return: an error left the function
Threw == [threw |-> TRUE]

InitFileHash ==
    /\ fFileHash \in FileHashStrings
    /\ fProof \in FileHashArtifacts
    /\ fResult = null
    /\ AgeIdle
    /\ StampIdle
    /\ PageIdle
    /\ MerkleIdle
    /\ CompareIdle
    /\ DigestIdle
    /\ ChainIdle
    /\ netCalls = <<>>

\* verifyFileHash(fFileHash, fProof) is called and returns or throws
CallVerifyFileHash ==
    /\ fProof # null
    /\ fResult = null
    /\ fResult' = IF verifyFileHashThrows(fProof) THEN Threw
                  ELSE verifyFileHash(fFileHash, fProof)
    /\ UNCHANGED <<fFileHash, fProof, merkleVars, compareVars, digestVars, ageVars,
                   stampVars, pageVars, chainVars, netCalls>>

NextFileHash == CallVerifyFileHash

SpecFileHash == InitFileHash /\ [][NextFileHash]_vars

\* ------------------------------------- formatTimeDelta as a function
\* the divisors of formatTimeDelta
BucketSeconds == {60, 3600, 86400, 604800, 2592000, 31536000}

\* elapsed times at, just below and just above the multiples of each divisor,
\* and the same with the commit timestamp ahead of the clock
AgeDeltas ==
    LET around == {k * t + e : k \in 1..MaxCount, t \in BucketSeconds, e \in {-1, 0, 1}}
        past == around \cup {0, 1, 30}
    IN past \cup {0 - d : d \in past}

InitAge ==
    /\ tDelta \in AgeDeltas
    /\ tText = null
    /\ FileHashIdle
    /\ StampIdle
    /\ PageIdle
    /\ MerkleIdle
    /\ CompareIdle
    /\ DigestIdle
    /\ ChainIdle
    /\ netCalls = <<>>

\* formatTimeDelta(tDelta) is called and returns
CallFormatTimeDelta ==
    /\ tText = null
    /\ tText' = formatTimeDelta(tDelta)
    /\ UNCHANGED <<tDelta, merkleVars, compareVars, digestVars, fileHashVars,
                   stampVars, pageVars, chainVars, netCalls>>

NextAge == CallFormatTimeDelta

SpecAge == InitAge /\ [][NextAge]_vars

\* ------------------------------------ ChainAnchorVerifier as a process
With0x(s) == Str(<<"0", "x">>) \o s

ChainArtifacts ==
    {Artifact(c, h, k, Str(<<"a", "b", "1", "2">>), Str(<<"a", "b", "1", "2">>), <<>>, Undef) :
        c \in BOOLEAN, h \in {Undef, Header1, With0x(Header1)},
        k \in {Undef, Coin1, With0x(Coin1)}}

CoinRecord(parent_coin_info, confirmed_block_index, timestamp) ==
    [parent_coin_info |-> parent_coin_info,
     confirmed_block_index |-> confirmed_block_index, timestamp |-> timestamp]

CoinRecords ==
    {CoinRecord(Coin1, 7, 1000), CoinRecord(With0x(Coin1), 8, 2000),
     CoinRecord(toUpperCase(Coin1), 7, 1000), CoinRecord(Str(<<"d", "d">>), 9, 3000),
     CoinRecord(Undef, 7, 1000)}

Response(kind, ok, success, payload) ==
    [kind |-> kind, ok |-> ok, success |-> success, payload |-> payload]

FailedResponses ==
    {Response("reject", FALSE, FALSE, UndefPayload),
     Response("json", FALSE, FALSE, UndefPayload),
     Response("badjson", TRUE, FALSE, UndefPayload),
     Response("json", TRUE, FALSE, UndefPayload),
     Response("json", TRUE, TRUE, UndefPayload)}

CoinResponses ==
    FailedResponses \cup
    {Response("json", FALSE, TRUE, <<CoinRecord(Coin1, 7, 1000)>>)} \cup
    {Response("json", TRUE, s, rs) :
        s \in BOOLEAN, rs \in SeqsUpTo(CoinRecords, MaxCoinRecords)}

BlockRecord(header_hash) == [header_hash |-> header_hash]

BlockResponses ==
    FailedResponses \cup
    {Response("json", FALSE, TRUE, <<BlockRecord(Header1)>>)} \cup
    {Response("json", TRUE, TRUE, <<BlockRecord(h)>>) :
        h \in {Header1, With0x(Header1), toUpperCase(Header1), Str(<<"b", "b">>), Undef}}

ClockValues == {995, 1060, 4600}

InitChain ==
    /\ cProof \in ChainArtifacts
    /\ cPc = "start"
    /\ cMatchingCoin = null
    /\ cResult = null
    /\ cCoinResponse = null
    /\ cBlockResponse = null
    /\ cCurrentTime = -1
    /\ netCalls = <<>>
    /\ FileHashIdle
    /\ AgeIdle
    /\ StampIdle
    /\ PageIdle
    /\ MerkleIdle
    /\ CompareIdle
    /\ DigestIdle

\* verifyOnChainVerification(cProof) from its call to the first await
ChainCheckFields ==
    /\ cPc = "start"
    /\ IF ~allFieldsPresent(cProof)
       THEN /\ cResult' = missingDataOutcome(cProof)
            /\ cPc' = "returned"
            /\ UNCHANGED netCalls
       ELSE /\ netCalls' = Append(netCalls, CoinRequest(cProof))
            /\ cPc' = "awaitCoin"
            /\ UNCHANGED cResult
    /\ UNCHANGED <<cProof, cMatchingCoin, cCoinResponse, cBlockResponse, cCurrentTime,
                   pageVars, otherVars>>

\* the coin-index fetch settles; the function runs to its next await or return
CoinIndexResponds ==
    /\ cPc = "awaitCoin"
    /\ \E resp \in CoinResponses :
         LET matchingCoin == findMatchingCoin(resp.payload, cProof) IN
         /\ cCoinResponse' = resp
         /\ IF coinResponseThrows(resp)
            THEN /\ cResult' = caughtErrorOutcome
                 /\ cPc' = "returned"
                 /\ UNCHANGED <<netCalls, cMatchingCoin>>
            ELSE IF coinResponseUnsuccessful(resp)
            THEN /\ cResult' = ChainOutcome(FALSE,
                                   "Coinset API returned unsuccessful response",
                                   NoArgs, "api-error")
                 /\ cPc' = "returned"
                 /\ UNCHANGED <<netCalls, cMatchingCoin>>
            ELSE IF matchingCoin # null
            THEN /\ netCalls' = Append(netCalls, BlockRequest(matchingCoin))
                 /\ cMatchingCoin' = matchingCoin
                 /\ cPc' = "awaitBlock"
                 /\ UNCHANGED cResult
            ELSE /\ cResult' = ChainOutcome(FALSE,
                                   "Coin ID %1 not found in coinset for root hash %2",
                                   <<cProof.coin_id, cProof.root_hash>>, "invalid-data")
                 /\ cPc' = "returned"
                 /\ UNCHANGED <<netCalls, cMatchingCoin>>
    /\ UNCHANGED <<cProof, cBlockResponse, cCurrentTime, pageVars, otherVars>>

\* the block-index fetch settles; the function runs to its return
BlockIndexResponds ==
    /\ cPc = "awaitBlock"
    /\ \E resp \in BlockResponses, currentTime \in ClockValues :
         /\ cBlockResponse' = resp
         /\ cCurrentTime' = currentTime
         /\ cResult' =
               IF blockResponseThrows(resp) THEN caughtErrorOutcome
               ELSE IF blockResponseUnsuccessful(resp)
               THEN ChainOutcome(FALSE, "Block record API returned unsuccessful response",
                                 NoArgs, "api-error")
               ELSE headerOutcome(cProof, cMatchingCoin, resp.payload[1], currentTime)
    /\ cPc' = "returned"
    /\ UNCHANGED <<cProof, cMatchingCoin, cCoinResponse, netCalls, pageVars, otherVars>>

NextChain == ChainCheckFields \/ CoinIndexResponds \/ BlockIndexResponds

SpecChain == InitChain /\ [][NextChain]_vars

\* --------------------------------------------------- the verify page
ErrorCalculatingHash == <<Chr("Error calculating hash")>>

OneStep == <<ProofStep(Str(<<"0", "1">>), "left")>>
RootOf(leaf, steps) == bytesToHex(foldSteps(hexToBytes(leaf), steps))

\* the proof files a user may load: the confirmed single-leaf artifact of
\* File1, and artifacts that differ from it in one respect
BaseArtifact ==
    Artifact(TRUE, Header1, Coin1, calculateSHA256(File1), calculateSHA256(File1),
             <<>>, Undef)

\* the artifact of File1 in a tree of two leaves, not confirmed yet
PendingArtifact ==
    Artifact(FALSE, Undef, Undef, RootOf(calculateSHA256(File1), OneStep),
             calculateSHA256(File1), OneStep, Undef)

VerifyArtifacts ==
    {BaseArtifact,
     [BaseArtifact EXCEPT !.leaf_hash = toUpperCase(calculateSHA256(File1))],
     [BaseArtifact EXCEPT !.leaf_hash = calculateSaltedSHA256(File1, Salt1),
                          !.root_hash = calculateSaltedSHA256(File1, Salt1),
                          !.salt = Salt1],
     [BaseArtifact EXCEPT !.root_hash = Str(<<"a", "b", "1", "2">>)],
     [BaseArtifact EXCEPT !.proof = OneStep,
                          !.root_hash = RootOf(calculateSHA256(File1), OneStep)],
     [BaseArtifact EXCEPT !.proof = flipStep(OneStep, 1),
                          !.root_hash = RootOf(calculateSHA256(File1), OneStep)],
     [BaseArtifact EXCEPT !.confirmed = FALSE, !.header_hash = Undef, !.coin_id = Undef],
     [BaseArtifact EXCEPT !.coin_id = Undef],
     PendingArtifact,
     [PendingArtifact EXCEPT !.salt = Salt1],
     \* JSON values without leaf_hash, without root_hash, without proof
     [BaseArtifact EXCEPT !.leaf_hash = Undef],
     [BaseArtifact EXCEPT !.root_hash = Undef],
     [BaseArtifact EXCEPT !.proof = UndefProof]}

Init ==
    /\ PageIdle
    /\ MerkleIdle
    /\ CompareIdle
    /\ DigestIdle
    /\ ChainIdle
    /\ netCalls = <<>>
    /\ FileHashIdle
    /\ AgeIdle
    /\ StampIdle

\* the effect on [originalFileHash, proofData], run after a render in which
\* one of them changed: runVerification up to the point where it returns
\* control to the event loop
UseEffect(hash, proof) ==
    IF hash # <<>> /\ proof # null
    THEN LET run == runVerificationTurn(hash, proof) IN
         /\ runs' = Append(runs, run)
         /\ verificationResults' =
               IF run.pc = "done" THEN run.results ELSE verificationResults
    ELSE /\ verificationResults' = NullResults
         /\ UNCHANGED runs

\* handleOriginalFileChange / handleOriginalFileDrop up to the await
SelectOriginalFile ==
    \E file \in Files :
        /\ events < MaxEvents
        /\ events' = events + 1
        /\ originalFile' = file
        /\ originalFileHash' = <<>>
        /\ isCalculatingHash' = TRUE
        /\ updateMessage' = ""
        /\ hashJobs' = Append(hashJobs, file)
        /\ IF originalFileHash # <<>>
           THEN UseEffect(<<>>, proofData)
           ELSE UNCHANGED <<verificationResults, runs>>
        /\ UNCHANGED <<proofData, proofParseError, isCheckingForUpdate, refreshes,
                       downloads, otherVars, chainVars, netCalls>>

RemoveAt(seq, i) == SubSeq(seq, 1, i - 1) \o SubSeq(seq, i + 1, Len(seq))

\* calculateSHA256 resolves: the rest of handleOriginalFileChange / Drop
HashResolved ==
    \E j \in 1..Len(hashJobs) :
        LET hash == calculateSHA256(hashJobs[j]) IN
        /\ originalFileHash' = hash
        /\ isCalculatingHash' = FALSE
        /\ hashJobs' = RemoveAt(hashJobs, j)
        /\ IF originalFileHash # hash
           THEN UseEffect(hash, proofData)
           ELSE UNCHANGED <<verificationResults, runs>>
        /\ UNCHANGED <<originalFile, proofData, proofParseError, isCheckingForUpdate,
                       updateMessage, events, refreshes, downloads, otherVars,
                       chainVars, netCalls>>

\* calculateSHA256 rejects: the catch branch of handleOriginalFileChange / Drop
HashRejected ==
    \E j \in 1..Len(hashJobs) :
        /\ originalFileHash' = ErrorCalculatingHash
        /\ isCalculatingHash' = FALSE
        /\ hashJobs' = RemoveAt(hashJobs, j)
        /\ IF originalFileHash # ErrorCalculatingHash
           THEN UseEffect(ErrorCalculatingHash, proofData)
           ELSE UNCHANGED <<verificationResults, runs>>
        /\ UNCHANGED <<originalFile, proofData, proofParseError, isCheckingForUpdate,
                       updateMessage, events, refreshes, downloads, otherVars,
                       chainVars, netCalls>>

\* what JSON.parse returns for the texts it accepts: an object, or the JSON
\* value null
ParsedValues == VerifyArtifacts \cup {null}

\* handleProofFileChange / Drop with a file parseProofFile accepts; a parsed
\* object is a new reference, null is the same value as before
ProofFileParsed ==
    \E parsedData \in ParsedValues :
        /\ events < MaxEvents
        /\ events' = events + 1
        /\ proofData' = parsedData
        /\ proofParseError' = ""
        /\ updateMessage' = ""
        /\ IF parsedData = null /\ proofData = null
           THEN UNCHANGED <<verificationResults, runs>>
           ELSE UseEffect(originalFileHash, parsedData)
        /\ UNCHANGED <<originalFile, originalFileHash, isCalculatingHash,
                       isCheckingForUpdate, hashJobs, refreshes, downloads,
                       otherVars, chainVars, netCalls>>

\* handleProofFileChange / Drop with a file parseProofFile rejects
ProofFileRejected ==
    /\ events < MaxEvents
    /\ events' = events + 1
    /\ proofParseError' = "Failed to parse proof file. Please ensure it's a valid JSON file."
    /\ proofData' = null
    /\ updateMessage' = ""
    /\ IF proofData # null
       THEN UseEffect(originalFileHash, null)
       ELSE UNCHANGED <<verificationResults, runs>>
    /\ UNCHANGED <<originalFile, originalFileHash, isCalculatingHash,
                   isCheckingForUpdate, hashJobs, refreshes, downloads,
                   otherVars, chainVars, netCalls>>

\* verifyLocalProof settles: runVerification continues to its end
RunResumes ==
    \E i \in 1..Len(runs) :
        /\ runs[i].pc = "awaitLocalProof"
        /\ runs' = [runs EXCEPT ![i] = runVerificationResume(runs[i])]
        /\ verificationResults' =
              IF runs'[i].pc = "done" THEN runs'[i].results ELSE verificationResults
        /\ UNCHANGED <<originalFile, originalFileHash, isCalculatingHash, proofData,
                       proofParseError, isCheckingForUpdate, updateMessage, hashJobs,
                       events, refreshes, downloads, otherVars, chainVars, netCalls>>

\* whether the "Check for Updated Proof" button is rendered
shouldShowUpdateButton_ignoresLocalProof ==
    /\ verificationResults.fileHashMatch # null
    /\ verificationResults.fileHashMatch.passed = TRUE
    /\ verificationResults.onChainCommitment # null
    /\ verificationResults.onChainCommitment.passed = FALSE

shouldShowUpdateButton ==
    /\ verificationResults.fileHashMatch # null
    /\ verificationResults.fileHashMatch.passed = TRUE
    /\ verificationResults.localProof # null
    /\ verificationResults.localProof.passed = TRUE
    /\ verificationResults.onChainCommitment # null
    /\ verificationResults.onChainCommitment.passed = FALSE

ProofRequest(hash) == [url |-> "/proof", hash |-> hash]

\* a click on the button: handleCheckForUpdatedProof up to the await of fetch.
\* proofData and originalFile are the values of the render the handler
\* closes over.
CheckForUpdatedProof ==
    /\ shouldShowUpdateButton
    /\ ~isCheckingForUpdate
    /\ originalFileHash # <<>>
    /\ proofData # null
    /\ Len(netCalls) < MaxRefreshes
    /\ isCheckingForUpdate' = TRUE
    /\ updateMessage' = ""
    /\ netCalls' = Append(netCalls, ProofRequest(originalFileHash))
    /\ refreshes' = Append(refreshes, [hash |-> originalFileHash,
                                       proofData |-> proofData,
                                       originalFile |-> originalFile])
    /\ UNCHANGED <<originalFile, originalFileHash, isCalculatingHash, proofData,
                   proofParseError, verificationResults, hashJobs, runs, events,
                   downloads, otherVars, chainVars>>

\* what the /proof collaborator may answer for an artifact: the artifact
\* unchanged, or the artifact with its chain fields filled in; the server
\* stores no salt
RefreshResponses(proof) ==
    FailedResponses \cup
    {Response("json", TRUE, TRUE, <<[proof EXCEPT !.salt = Undef]>>),
     Response("json", TRUE, TRUE,
              <<[proof EXCEPT !.confirmed = TRUE, !.header_hash = Header1,
                              !.coin_id = Coin1, !.salt = Undef]>>)}

refreshThrows(resp) ==
    \/ resp.kind = "reject" \/ ~resp.ok \/ resp.kind = "badjson"
    \/ resp.payload = UndefPayload

RefreshResponds_replacesArtifact ==
    \E k \in 1..Len(refreshes) : \E resp \in RefreshResponses(refreshes[k].proofData) :
        LET r == refreshes[k] IN
        /\ refreshes' = RemoveAt(refreshes, k)
        /\ isCheckingForUpdate' = FALSE
        /\ IF refreshThrows(resp)
           THEN /\ updateMessage' = "Error checking for updates. Please try again."
                /\ UNCHANGED <<downloads, proofData>>
           ELSE IF compareProofs(r.proofData, resp.payload[1])
           THEN /\ downloads' = IF r.originalFile = NoFile THEN downloads
                                ELSE Append(downloads, [file |-> r.originalFile,
                                                        content |-> resp.payload[1],
                                                        current |-> r.proofData])
                /\ proofData' = resp.payload[1]
                /\ updateMessage' = "Updated proof downloaded successfully!"
           ELSE /\ updateMessage' =
                      "No updates available for this proof. Your current proof is up to date."
                /\ UNCHANGED <<downloads, proofData>>
        /\ UNCHANGED <<originalFile, originalFileHash, isCalculatingHash,
                       proofParseError, verificationResults, hashJobs, runs, events,
                       otherVars, chainVars, netCalls>>

\* the fetch of /proof settles: the rest of handleCheckForUpdatedProof
RefreshResponds ==
    \E k \in 1..Len(refreshes) : \E resp \in RefreshResponses(refreshes[k].proofData) :
        LET r == refreshes[k] IN
        /\ refreshes' = RemoveAt(refreshes, k)
        /\ isCheckingForUpdate' = FALSE
        /\ IF refreshThrows(resp)
           THEN /\ updateMessage' = "Error checking for updates. Please try again."
                /\ UNCHANGED downloads
           ELSE IF compareProofs(r.proofData, resp.payload[1])
           THEN /\ downloads' = IF r.originalFile = NoFile THEN downloads
                                ELSE Append(downloads, [file |-> r.originalFile,
                                                        content |-> resp.payload[1],
                                                        current |-> r.proofData])
                /\ updateMessage' = "Updated proof downloaded successfully!"
           ELSE /\ updateMessage' =
                      "No updates available for this proof. Your current proof is up to date."
                /\ UNCHANGED downloads
        /\ UNCHANGED <<originalFile, originalFileHash, isCalculatingHash, proofData,
                       proofParseError, verificationResults, hashJobs, runs, events,
                       otherVars, chainVars, netCalls>>

Next ==
    \/ SelectOriginalFile
    \/ HashResolved
    \/ HashRejected
    \/ ProofFileParsed
    \/ ProofFileRejected
    \/ RunResumes
    \/ CheckForUpdatedProof
    \/ RefreshResponds

Spec == Init /\ [][Next]_vars

\* --------------------------------------------------- the stamping page
\* a File: its name and its bytes
StampFile(name, bytes) == [name |-> name, bytes |-> bytes]
StampFiles == {StampFile("a.txt", File1), StampFile("b.txt", File2)}

\* generateSecureSalt: the hex text of random bytes
Salt2 == Str(<<"a", "b">>)
generateSecureSalt == {Salt1, Salt2}

InitStamp ==
    /\ StampIdle
    /\ FileHashIdle
    /\ AgeIdle
    /\ PageIdle
    /\ MerkleIdle
    /\ CompareIdle
    /\ DigestIdle
    /\ ChainIdle
    /\ netCalls = <<>>

\* handleFileChange / handleDrop: processFile from its call to the await of
\* calculateSaltedSHA256 (generateSecureSalt settles without suspending)
ProcessFile ==
    \E file \in StampFiles, generatedSalt \in generateSecureSalt :
        /\ Len(sSelected) < MaxSelections
        /\ sSelected' = Append(sSelected, file)
        /\ sIsCalculating' = TRUE
        /\ sFileName' = file.name
        /\ sHash' = <<>>
        /\ sSalt' = generatedSalt
        /\ sJobs' = Append(sJobs, [file |-> file, generatedSalt |-> generatedSalt])
        /\ UNCHANGED <<sIsSubmitting, sSubmits, sDownloads, merkleVars, compareVars,
                       digestVars, fileHashVars, ageVars, pageVars, chainVars,
                       netCalls>>

\* calculateSaltedSHA256 resolves: the rest of the try block and the finally
ProcessFileResolved ==
    \E j \in 1..Len(sJobs) :
        /\ sHash' = calculateSaltedSHA256(sJobs[j].file.bytes, sJobs[j].generatedSalt)
        /\ sIsCalculating' = FALSE
        /\ sJobs' = RemoveAt(sJobs, j)
        /\ UNCHANGED <<sSalt, sFileName, sIsSubmitting, sSubmits, sDownloads,
                       sSelected, merkleVars, compareVars, digestVars, fileHashVars,
                       ageVars, pageVars, chainVars, netCalls>>

ProcessFileRejected_noFinally ==
    \E j \in 1..Len(sJobs) :
        /\ sHash' = ErrorCalculatingHash
        /\ sJobs' = RemoveAt(sJobs, j)
        /\ UNCHANGED <<sSalt, sFileName, sIsCalculating, sIsSubmitting, sSubmits,
                       sDownloads, sSelected, merkleVars, compareVars, digestVars,
                       fileHashVars, ageVars, pageVars, chainVars, netCalls>>

\* calculateSaltedSHA256 rejects: the catch branch and the finally
ProcessFileRejected ==
    \E j \in 1..Len(sJobs) :
        /\ sHash' = ErrorCalculatingHash
        /\ sIsCalculating' = FALSE
        /\ sJobs' = RemoveAt(sJobs, j)
        /\ UNCHANGED <<sSalt, sFileName, sIsSubmitting, sSubmits, sDownloads,
                       sSelected, merkleVars, compareVars, digestVars, fileHashVars,
                       ageVars, pageVars, chainVars, netCalls>>

\* the submit button is rendered, and not disabled
submitEnabled == sHash # <<>> /\ ~sIsCalculating /\ ~sIsSubmitting

StampRequest_withSalt(hash) == [url |-> "/stamp", hash |-> hash, salt |-> sSalt]

\* JSON.stringify({ hash }) posted to /stamp
StampRequest(hash) == [url |-> "/stamp", hash |-> hash]

\* submitToServer from the click to the await of fetch; the invocation
\* keeps the hash, salt and fileName of the render it was created in
SubmitToServer ==
    /\ submitEnabled
    /\ Len(sSubmits) < MaxSubmits
    /\ sIsSubmitting' = TRUE
    /\ netCalls' = Append(netCalls, StampRequest(sHash))
    /\ sSubmits' = Append(sSubmits, [hash |-> sHash, salt |-> sSalt,
                                      fileName |-> sFileName, pc |-> "awaitFetch",
                                      data |-> null])
    /\ UNCHANGED <<sHash, sSalt, sFileName, sIsCalculating, sJobs, sDownloads,
                   sSelected, merkleVars, compareVars, digestVars, fileHashVars,
                   ageVars, pageVars, chainVars>>

\* what the fetch of /stamp can settle with: the artifact of the posted hash
StampResponses(hash) ==
    {Response("reject", FALSE, FALSE, UndefPayload),
     Response("json", FALSE, FALSE, UndefPayload),
     Response("badjson", TRUE, FALSE, UndefPayload),
     Response("json", TRUE, TRUE,
              <<Artifact(FALSE, Undef, Undef, RootOf(hash, OneStep), hash, OneStep, Undef)>>)}

submitThrows(resp) == resp.kind = "reject" \/ ~resp.ok \/ resp.kind = "badjson"

\* { ...data, salt: salt }
proofWithSalt(data, salt) == [data EXCEPT !.salt = salt]

\* the fetch of /stamp settles: the rest of submitToServer
StampResponds ==
    \E k \in 1..Len(sSubmits) : \E resp \in StampResponses(sSubmits[k].hash) :
        LET submit == sSubmits[k] IN
        /\ submit.pc = "awaitFetch"
        /\ sIsSubmitting' = FALSE
        /\ IF submitThrows(resp)
           THEN /\ sSubmits' = [sSubmits EXCEPT ![k].pc = "caught"]
                /\ UNCHANGED sDownloads
           ELSE /\ sSubmits' = [sSubmits EXCEPT ![k].pc = "done",
                                                ![k].data = resp.payload[1]]
                /\ sDownloads' =
                      Append(sDownloads,
                             [download |-> <<submit.fileName, ".proof.json">>,
                              content |-> proofWithSalt(resp.payload[1], submit.salt),
                              submit |-> k])
        /\ UNCHANGED <<sHash, sSalt, sFileName, sIsCalculating, sJobs, sSelected,
                       merkleVars, compareVars, digestVars, fileHashVars, ageVars,
                       pageVars, chainVars, netCalls>>

NextStamp ==
    \/ ProcessFile
    \/ ProcessFileResolved
    \/ ProcessFileRejected
    \/ SubmitToServer
    \/ StampResponds

SpecStamp == InitStamp /\ [][NextStamp]_vars

\* ------------------------------------- one page in use, operations settle
\* One page component is mounted at a time: a session is spent on the verify
\* page or on the stamping page. Every awaited operation settles: a pending
\* hash computation resolves or rejects, a pending fetch resolves or rejects.
\* The session works with one file and with the pending artifact of that file.
OnVerifyPage ==
    /\ StampIdle
    /\ Next
    /\ originalFile' \in {NoFile, File1}
    /\ proofData' \in {null, PendingArtifact}

OnStampPage ==
    /\ PageIdle
    /\ NextStamp
    /\ \A i \in 1..Len(sSelected') : sSelected'[i].bytes = File1
    /\ sSalt' \in {<<>>, Salt1}

NextSettling == OnVerifyPage \/ OnStampPage

Settles ==
    /\ WF_vars(StampIdle /\ (HashResolved \/ HashRejected))
    /\ WF_vars(StampIdle /\ RefreshResponds)
    /\ WF_vars(PageIdle /\ (ProcessFileResolved \/ ProcessFileRejected))
    /\ WF_vars(PageIdle /\ StampResponds)

SpecSettling == Init /\ [][NextSettling]_vars /\ Settles

\* ------------------------------------------------------------ claims
EqualIgnoringCase(a, b) == toLowerCase(a) = toLowerCase(b)

DoneRuns == {i \in 1..Len(runs) : runs[i].pc = "done"}

\* C1: the on-chain outcome of a completed run passes only if the coin index
\* was queried for the artifact's root and the block index was queried after
\* it; the presence of confirmed, header_hash and coin_id is not sufficient
C1_AnchorPassNeedsChainQueries ==
    \A i \in DoneRuns :
        runs[i].results.onChainCommitment.passed =>
            \E c \in 1..Len(netCalls) :
                /\ netCalls[c] = CoinRequest(runs[i].proof)
                /\ \E b \in (c + 1)..Len(netCalls) :
                      netCalls[b].url = "/get_block_record_by_height"

\* C2: a completed run that was started with a digest and an artifact has
\* the three slots fileHashMatch, localProof and onChainCommitment, none of
\* them null, and the stored result set is never partly filled
C2_ThreeSlotsFilled ==
    /\ \A i \in DoneRuns :
          /\ DOMAIN runs[i].results = {"fileHashMatch", "localProof", "onChainCommitment"}
          /\ \A slot \in DOMAIN runs[i].results : runs[i].results[slot] # null
    /\ \/ verificationResults = NullResults
       \/ \A slot \in DOMAIN verificationResults : verificationResults[slot] # null

C2_Witness ==
    \E i \in DoneRuns :
        /\ runs[i].results.fileHashMatch.passed
        /\ ~runs[i].results.localProof.passed
        /\ runs[i].results.onChainCommitment # null
        /\ verificationResults = runs[i].results

StageOrder == <<"verifyFileHash", "verifyLocalProof", "verifyOnChainCommitment">>

\* C3: a run invokes the stages in the order FileHashCheck, LocalProofCheck,
\* ChainAnchorCheck; MerkleVerifier only after FileHashCheck passed, the
\* on-chain stage only after LocalProofCheck passed; a run whose file hash
\* or local proof fails performs no network call (the only requests the
\* page sends are the refresh requests of the user)
C3_StagesInOrder ==
    \A i \in 1..Len(runs) :
        LET run == runs[i] IN
        /\ Len(run.calls) \in 1..3
        /\ run.calls = SubSeq(StageOrder, 1, Len(run.calls))
        /\ Len(run.calls) >= 2 => run.results.fileHashMatch.passed
        /\ Len(run.calls) = 3 =>
              run.results.localProof # null /\ run.results.localProof.passed
        /\ (run.pc = "done" /\ Len(run.calls) < 3) =>
              \A c \in 1..Len(netCalls) : netCalls[c].url = "/proof"

C3_Witness ==
    \E i \in DoneRuns, j \in DoneRuns :
        /\ runs[i].calls = StageOrder
        /\ runs[j].calls = <<"verifyFileHash", "verifyLocalProof">>
        /\ ~runs[j].results.localProof.passed

\* C4 as stated: the placeholders carry the messages "cannot verify local
\* proof: file hash does not match", "cannot verify on-chain: file hash does
\* not match" and "cannot verify on-chain: local proof is invalid"
C4_PlaceholdersAsStated ==
    \A i \in DoneRuns :
        LET res == runs[i].results IN
        /\ ~res.fileHashMatch.passed =>
              /\ res.localProof.message
                    = "cannot verify local proof: file hash does not match"
              /\ res.onChainCommitment.message
                    = "cannot verify on-chain: file hash does not match"
        /\ (res.fileHashMatch.passed /\ ~res.localProof.passed) =>
              res.onChainCommitment.message
                  = "cannot verify on-chain: local proof is invalid"

\* C4 amended: a skipped stage's slot holds a failing placeholder whose
\* message is "Cannot verify local proof: file hash does not match",
\* "Cannot verify on-chain commitment: file hash does not match" or
\* "Cannot verify on-chain commitment: local proof is invalid"
C4_PlaceholderMessages ==
    \A i \in DoneRuns :
        LET res == runs[i].results IN
        /\ ~res.fileHashMatch.passed =>
              /\ ~res.localProof.passed
              /\ res.localProof.message
                    = "Cannot verify local proof: file hash does not match"
              /\ ~res.onChainCommitment.passed
              /\ res.onChainCommitment.message
                    = "Cannot verify on-chain commitment: file hash does not match"
        /\ (res.fileHashMatch.passed /\ ~res.localProof.passed) =>
              /\ ~res.onChainCommitment.passed
              /\ res.onChainCommitment.message
                    = "Cannot verify on-chain commitment: local proof is invalid"

C4_Witness ==
    \E i \in DoneRuns :
        /\ ~runs[i].results.fileHashMatch.passed
        /\ runs[i].calls = <<"verifyFileHash">>
        /\ verificationResults = runs[i].results

\* C5: a run on the digest the verify page computes for a file, against the
\* artifact of that file's stamping (leaf_hash the salted digest, the salt
\* stored in the artifact), passes FileHashCheck
C5_StampedFileVerifies ==
    \A i \in 1..Len(runs), file \in Files :
        (/\ runs[i].hash = calculateSHA256(file)
         /\ runs[i].proof.salt # Undef
         /\ runs[i].proof.leaf_hash = calculateSaltedSHA256(file, runs[i].proof.salt))
            => runs[i].results.fileHashMatch.passed

\* the node k steps above the leaf, as the claims define it
RECURSIVE NodeAt(_, _, _)
NodeAt(leafHex, steps, k) ==
    IF k = 0 THEN hexToBytes(leafHex)
    ELSE LET below == NodeAt(leafHex, steps, k - 1)
             sibling == hexToBytes(steps[k].hash)
         IN IF steps[k].position = "left" THEN sha256(sibling \o below)
            ELSE sha256(below \o sibling)

MerkleReturned == mProof # null /\ mResult # null

\* C6: for a non-empty step sequence MerkleVerifier passes exactly when the
\* fold of the steps from decode(leaf) (Left: H(sibling ++ computed), Right:
\* H(computed ++ sibling)) encodes to root_hash ignoring letter case
C6_MerkleFoldDecides ==
    (MerkleReturned /\ Len(mProof.proof) > 0 /\ ~multiLeafThrows(mProof)) =>
        (mResult.passed <=>
            EqualIgnoringCase(
                bytesToHex(NodeAt(mProof.leaf_hash, mProof.proof, Len(mProof.proof))),
                mProof.root_hash))

C6_Witness ==
    /\ MerkleReturned
    /\ Len(mProof.proof) = 2
    /\ mProof.proof[1].position = "left"
    /\ mProof.proof[2].position = "right"
    /\ mResult.passed
    /\ mProof.root_hash # toLowerCase(mProof.root_hash)

\* C7: for an empty step sequence MerkleVerifier hashes nothing, passes iff
\* leaf_hash equals root_hash ignoring letter case, and labels the outcome
\* as the single-leaf branch, a label the multi-step branch never uses
C7_SingleLeafBranch ==
    MerkleReturned =>
        /\ Len(mProof.proof) = 0 =>
              /\ digestCalls = 0
              /\ mResult.passed <=> EqualIgnoringCase(mProof.leaf_hash, mProof.root_hash)
              /\ mResult.step = "Local Proof (Single Leaf)"
        /\ Len(mProof.proof) > 0 => mResult.step # "Local Proof (Single Leaf)"

C7_Witness ==
    /\ MerkleReturned
    /\ mProof.proof = <<>>
    /\ mProof.leaf_hash = Str(<<"a", "b", "1", "2">>)
    /\ mProof.root_hash = Str(<<"A", "B", "1", "2">>)
    /\ mResult.passed
    /\ digestCalls = 0

\* the artifact with the position of step i flipped
FlippedAt(proof, i) == [proof EXCEPT !.proof = flipStep(proof.proof, i)]

SiblingAt(proof, i) == hexToBytes(proof.proof[i].hash)
BelowAt(proof, i) == NodeAt(proof.leaf_hash, proof.proof, i - 1)

\* C8 as stated: flipping one step of an accepted path makes MerkleVerifier
\* fail unless that step's sibling equals the node computed below it
C8_FlipFailsUnlessEqual ==
    (MerkleReturned /\ Len(mProof.proof) > 0 /\ mResult.passed) =>
        \A i \in 1..Len(mProof.proof) :
            SiblingAt(mProof, i) # BelowAt(mProof, i)
                => ~verifyLocalProof(FlippedAt(mProof, i)).passed

\* C8 amended: flipping one step of an accepted path makes MerkleVerifier
\* fail unless the two concatenation orders of that step's sibling and the
\* node computed below it are the same byte string
C8_FlipFailsUnlessCommuting ==
    (MerkleReturned /\ Len(mProof.proof) > 0 /\ mResult.passed) =>
        \A i \in 1..Len(mProof.proof) :
            SiblingAt(mProof, i) \o BelowAt(mProof, i)
                    # BelowAt(mProof, i) \o SiblingAt(mProof, i)
                => ~verifyLocalProof(FlippedAt(mProof, i)).passed

C8_Witness ==
    /\ MerkleReturned
    /\ Len(mProof.proof) = 2
    /\ mResult.passed
    /\ \A i \in 1..2 :
          /\ SiblingAt(mProof, i) \o BelowAt(mProof, i)
                # BelowAt(mProof, i) \o SiblingAt(mProof, i)
          /\ ~verifyLocalProof(FlippedAt(mProof, i)).passed

\* a string is malformed hex when its length is odd or a character is not a
\* hex digit (the 64 characters of a digest are well formed)
IsHexChar(ch) == IsDigestChunk(ch) \/ DigitValue(ch.c) # NaN
PlainLength(hex) == Cardinality({i \in 1..Len(hex) : ~IsDigestChunk(hex[i])})
MalformedHex(hex) ==
    /\ hex # Undef
    /\ \/ PlainLength(hex) % 2 = 1
       \/ \E i \in 1..Len(hex) : ~IsHexChar(hex[i])

HasMalformedHex(proof) ==
    \/ MalformedHex(proof.leaf_hash)
    \/ MalformedHex(proof.root_hash)
    \/ \E i \in 1..Len(proof.proof) : MalformedHex(proof.proof[i].hash)

\* C9: with malformed hex in leaf_hash, root_hash or a step hash,
\* MerkleVerifier returns a failing outcome with failureReason invalid-data
C9_MalformedHexFailsInvalidData ==
    (MerkleReturned /\ HasMalformedHex(mProof)) =>
        /\ ~mResult.passed
        /\ mResult.failureReason = "invalid-data"

\* the members of {confirmed, header_hash, coin_id} absent from an artifact,
\* in that order
AbsentMembers(proof) ==
    SelectSeq(<<"confirmed", "header_hash", "coin_id">>,
              LAMBDA f : \/ f = "confirmed" /\ proof.confirmed # TRUE
                         \/ f = "header_hash" /\ proof.header_hash = Undef
                         \/ f = "coin_id" /\ proof.coin_id = Undef)

\* C10: when confirmed is not true or header_hash or coin_id is absent,
\* ChainAnchorVerifier issues no network call and returns a failing
\* missing-data outcome whose message lists exactly the absent members
C10_MissingFieldsNoNetwork ==
    (cProof # null /\ AbsentMembers(cProof) # <<>>) =>
        /\ netCalls = <<>>
        /\ cPc \in {"start", "returned"}
        /\ cPc = "returned" =>
              /\ ~cResult.passed
              /\ cResult.failureReason = "missing-data"
              /\ cResult.texts = AbsentMembers(cProof)

C10_Witness ==
    /\ cPc = "returned"
    /\ cProof.confirmed = TRUE
    /\ cProof.header_hash = Header1
    /\ cProof.coin_id = Undef
    /\ cResult.failureReason = "missing-data"
    /\ cResult.texts = <<"coin_id">>
    /\ netCalls = <<>>

\* a call to the coin index or the block index failed at the transport or
\* API level: the fetch or the decoding threw, the status is not 2xx, success
\* is not true, or the payload (coin_records / block_record) is absent
ApiFailure(resp) ==
    \/ resp.kind \in {"reject", "badjson"}
    \/ ~resp.ok
    \/ ~resp.success
    \/ resp.payload = UndefPayload

ChainFailedWith(reason) ==
    cPc = "returned" /\ ~cResult.passed /\ cResult.failureReason = reason

\* C11: when the preconditions hold, a transport or API failure of the
\* coin-index call or of the block-index call makes ChainAnchorVerifier fail
\* with failureReason api-error
C11_TransportFailureIsApiError ==
    /\ (cCoinResponse # null /\ ApiFailure(cCoinResponse)) =>
          ChainFailedWith("api-error") /\ cBlockResponse = null
    /\ (cBlockResponse # null /\ ApiFailure(cBlockResponse)) =>
          ChainFailedWith("api-error")

C11_Witness ==
    /\ cBlockResponse = Response("json", FALSE, TRUE, <<BlockRecord(Header1)>>)
    /\ cProof.header_hash = Header1
    /\ ChainFailedWith("api-error")

\* the coin index answered: 2xx, decodable, success true, coin_records present
Answered(resp) == resp # null /\ ~ApiFailure(resp)

\* a string with one optional "0x" prefix stripped
Unprefixed(s) ==
    IF Len(s) >= 2 /\ s[1] = Chr("0") /\ s[2] = Chr("x") THEN SubSeq(s, 3, Len(s)) ELSE s

\* a record whose parent_coin_info, with one optional "0x" prefix stripped,
\* equals the artifact's coin_id exactly
RecordNamesCoin(record, proof) ==
    Unprefixed(record.parent_coin_info) = proof.coin_id

BlockQueries == {c \in 1..Len(netCalls) : netCalls[c].url = "/get_block_record_by_height"}

\* C12: when the coin index answers and no returned record names the
\* artifact's coin_id (case-sensitive, an empty list included),
\* ChainAnchorVerifier fails with invalid-data and never queries the block index
C12_NoMatchingCoinIsInvalidData ==
    (/\ Answered(cCoinResponse)
     /\ \A i \in 1..Len(cCoinResponse.payload) :
           ~RecordNamesCoin(cCoinResponse.payload[i], cProof)) =>
        /\ ChainFailedWith("invalid-data")
        /\ BlockQueries = {}
        /\ cBlockResponse = null

C12_Witness ==
    /\ Answered(cCoinResponse)
    /\ cProof.coin_id = Coin1
    /\ Len(cCoinResponse.payload) = 2
    /\ cCoinResponse.payload[1].parent_coin_info = toUpperCase(Coin1)
    /\ cCoinResponse.payload[2].parent_coin_info = Str(<<"d", "d">>)
    /\ ChainFailedWith("invalid-data")
    /\ BlockQueries = {}

\* C13: when a matching coin exists and the block index answers with a block
\* that has a header_hash, ChainAnchorVerifier passes iff the artifact's and
\* the block's header_hash are equal once one optional "0x" prefix is
\* stripped from each (case-sensitive), and fails with invalid-data otherwise
C13_HeaderHashDecides ==
    (/\ Answered(cBlockResponse)
     /\ cBlockResponse.payload[1].header_hash # Undef) =>
        LET same == Unprefixed(cProof.header_hash)
                        = Unprefixed(cBlockResponse.payload[1].header_hash)
        IN /\ cPc = "returned"
           /\ cResult.passed <=> same
           /\ ~same => cResult.failureReason = "invalid-data"

C13_Witness ==
    /\ Answered(cBlockResponse)
    /\ cProof.header_hash = With0x(Header1)
    /\ cBlockResponse.payload[1].header_hash = Header1
    /\ cPc = "returned"
    /\ cResult.passed

FailureReasons == {"missing-data", "invalid-data", "api-error"}

\* C14: every invocation of ChainAnchorVerifier that has ended has returned
\* an outcome: a failing one carries one failureReason of missing-data,
\* invalid-data, api-error, a passing one carries none
C14_TypedOutcomes ==
    /\ cPc \in {"idle", "start", "awaitCoin", "awaitBlock", "returned"}
    /\ cPc = "returned" <=> cResult # null
    /\ cResult # null =>
          /\ cResult.passed \in BOOLEAN
          /\ cResult.passed => cResult.failureReason = "undefined"
          /\ ~cResult.passed => cResult.failureReason \in FailureReasons

C14_Witness ==
    /\ Answered(cBlockResponse)
    /\ cBlockResponse.payload[1].header_hash = Undef
    /\ ChainFailedWith("api-error")

AwaitingRuns == {i \in 1..Len(runs) : runs[i].pc = "awaitLocalProof"}

\* C15: every run started for a digest and an artifact the proof parser
\* accepted completes with its result set; no error leaves runVerification
C15_RunNeverAborts ==
    \A i \in 1..Len(runs) : runs[i].pc # "threw"

\* C16: once every started run has completed, and the digest and artifact
\* of the most recently started run are still the page's inputs, the stored
\* result set is the one that run produced
C16_LatestRunWins ==
    (/\ runs # <<>>
     /\ AwaitingRuns = {}
     /\ runs[Len(runs)].pc = "done"
     /\ originalFileHash = runs[Len(runs)].hash
     /\ proofData = runs[Len(runs)].proof) =>
        verificationResults = runs[Len(runs)].results

MissingFieldsMessage ==
    "Cannot verify on-chain commitment: missing or invalid fields (%texts)"

C19_RefreshAsksForHeldArtifact ==
    \A k \in 1..Len(refreshes) :
        EqualIgnoringCase(refreshes[k].hash, refreshes[k].proofData.leaf_hash)

SameSteps(p, q) ==
    /\ Len(p) = Len(q)
    /\ \A i \in 1..Len(p) : p[i].hash = q[i].hash /\ p[i].position = q[i].position

\* two artifacts differ in one of confirmed, header_hash, coin_id,
\* root_hash, leaf_hash or proof (element by element, in order)
ArtifactsDiffer(a, b) ==
    \/ a.confirmed # b.confirmed
    \/ a.header_hash # b.header_hash
    \/ a.coin_id # b.coin_id
    \/ a.root_hash # b.root_hash
    \/ a.leaf_hash # b.leaf_hash
    \/ ~SameSteps(a.proof, b.proof)

\* C17: the refresh comparison returns true iff the two artifacts differ in
\* confirmed, header_hash, coin_id, root_hash, leaf_hash or in a step's hash
\* or position or in the number or order of steps; never for a difference
\* in salt alone
C17_ComparisonDetectsDifferences ==
    rHasChanges # <<>> =>
        (rHasChanges[1] <=> ArtifactsDiffer(rCurrent, rUpdated))

\* the bytes a well-formed hex string denotes
RECURSIVE DecodePairs(_)
DecodePairs(hex) ==
    IF Len(hex) < 2 THEN <<>>
    ELSE <<Byte(16 * DigitValue(hex[1].c) + DigitValue(hex[2].c))>>
             \o DecodePairs(SubSeq(hex, 3, Len(hex)))

WellFormedHex(hex) ==
    Len(hex) % 2 = 0 /\ \A i \in 1..Len(hex) : DigitValue(hex[i].c) # NaN

\* C20: saltedDigest(b, s) is H(b ++ decode(s)), the content first and the
\* salt second, and differs from digest(b) whenever s is not empty
C20_SaltedDigestDiffers ==
    dResult # Undef =>
        /\ WellFormedHex(dSalt) =>
              dResult = bytesToHex(sha256(dFile \o DecodePairs(dSalt)))
        /\ dSalt # <<>> => dResult # calculateSHA256(dFile)

\* C21: for a salt string of odd length or with a character that is not a
\* hex digit, saltedDigest returns no digest
C21_MalformedSaltRejected ==
    MalformedHex(dSalt) => dResult = Undef

\* the two strings have the same length and, position by position, the same
\* character or the two cases of one letter
DifferOnlyInCase(a, b) ==
    /\ Len(a) = Len(b)
    /\ \A i \in 1..Len(a) :
          /\ a[i].h = b[i].h
          /\ \/ a[i].c = b[i].c
             \/ a[i].c = UpperChar(b[i].c)
             \/ b[i].c = UpperChar(a[i].c)

FileHashReturned == fResult # null /\ fResult # Threw

\* C22: FileHashCheck passes iff the digest and artifact.leaf_hash are equal
\* after lower-casing both: it passes for inputs that differ only in letter
\* case and fails for any other difference
C22_FileHashCheckIgnoresCase ==
    FileHashReturned =>
        /\ fResult.passed <=> EqualIgnoringCase(fFileHash, fProof.leaf_hash)
        /\ fResult.passed <=> DifferOnlyInCase(fFileHash, fProof.leaf_hash)

C22_Witness ==
    /\ FileHashReturned
    /\ fResult.passed
    /\ fFileHash # fProof.leaf_hash
    /\ Len(fFileHash) = 4

\* the buckets of the age text, largest first
AgeBuckets ==
    <<[seconds |-> 31536000, one |-> "year ago", many |-> "years ago"],
      [seconds |-> 2592000, one |-> "month ago", many |-> "months ago"],
      [seconds |-> 604800, one |-> "week ago", many |-> "weeks ago"],
      [seconds |-> 86400, one |-> "day ago", many |-> "days ago"],
      [seconds |-> 3600, one |-> "hour ago", many |-> "hours ago"],
      [seconds |-> 60, one |-> "minute ago", many |-> "minutes ago"]>>

FirstBucket(d) ==
    CHOOSE i \in 1..Len(AgeBuckets) :
        /\ AgeBuckets[i].seconds <= d
        /\ \A j \in 1..(i - 1) : AgeBuckets[j].seconds > d

ExpectedAge(d) ==
    IF d < 60 THEN [n |-> 0, unit |-> "just now"]
    ELSE LET b == AgeBuckets[FirstBucket(d)]
             n == d \div b.seconds
         IN [n |-> n, unit |-> IF n = 1 THEN b.one ELSE b.many]

\* C23: for an elapsed time d >= 0 the age text uses the first bucket (years,
\* months, weeks, days, hours, minutes) whose threshold is <= d, with count
\* floor(d / threshold), the singular unit exactly for count 1, and "just
\* now" below 60; 3600 is "1 hour ago" and 3599 is "59 minutes ago"
C23_AgeTextBuckets ==
    (tText # null /\ tDelta >= 0) =>
        /\ tText = ExpectedAge(tDelta)
        /\ tDelta = 3600 => tText = [n |-> 1, unit |-> "hour ago"]
        /\ tDelta = 3599 => tText = [n |-> 59, unit |-> "minutes ago"]

C23_Witness == tDelta = 3600 /\ tText = [n |-> 1, unit |-> "hour ago"]

\* C27: for a negative elapsed time the age text is "just now" and no
\* negative count is rendered
C27_NegativeAgeIsJustNow ==
    (tText # null /\ tDelta < 0) => tText = [n |-> 0, unit |-> "just now"]

C27_Witness == tDelta < -3600 /\ tText # null /\ tText.unit = "just now"

ChainPassed == cPc = "returned" /\ cResult.passed

\* C24: a passing ChainAnchorVerifier outcome carries blockIndex and timestamp
\* of a coin record that names the artifact's coin_id, and the block index
\* was queried at that record's confirmed_block_index
C24_PassingOutcomeCarriesMatchedCoin ==
    ChainPassed =>
        \E i \in 1..Len(cCoinResponse.payload) :
            LET record == cCoinResponse.payload[i] IN
            /\ RecordNamesCoin(record, cProof)
            /\ cResult.blockIndex = record.confirmed_block_index
            /\ cResult.timestamp = record.timestamp
            /\ \A c \in BlockQueries : netCalls[c].height = record.confirmed_block_index

C24_Witness ==
    /\ ChainPassed
    /\ Len(cCoinResponse.payload) = 2
    /\ cCoinResponse.payload[1].confirmed_block_index = 9
    /\ cCoinResponse.payload[2].confirmed_block_index = 8
    /\ cResult.blockIndex = 8
    /\ cResult.timestamp = 2000
    /\ netCalls[2].height = 8

CoinQueryFailed ==
    cCoinResponse # null /\ (ApiFailure(cCoinResponse) \/ ~cCoinResponse.success)

\* C25: one ChainAnchorVerifier invocation issues at most two network calls,
\* one at a time: the coin-index query first, the block-index query only
\* after the coin index answered with a matching coin, and nothing after a
\* failure
C25_AtMostTwoSequentialCalls ==
    /\ Len(netCalls) <= 2
    /\ Len(netCalls) >= 1 => netCalls[1] = CoinRequest(cProof)
    /\ Len(netCalls) = 2 =>
          /\ netCalls[2].url = "/get_block_record_by_height"
          /\ Answered(cCoinResponse)
          /\ \E i \in 1..Len(cCoinResponse.payload) :
                RecordNamesCoin(cCoinResponse.payload[i], cProof)
    /\ cPc = "awaitCoin" => Len(netCalls) = 1 /\ cCoinResponse = null
    /\ cPc = "awaitBlock" => Len(netCalls) = 2 /\ cBlockResponse = null
    /\ CoinQueryFailed => Len(netCalls) = 1 /\ cPc = "returned"
    /\ cBlockResponse # null => Len(netCalls) = 2 /\ cPc = "returned"

C25_Witness ==
    /\ cPc = "returned"
    /\ Len(netCalls) = 2
    /\ cBlockResponse # null
    /\ ApiFailure(cBlockResponse)

ArtifactFields == {"confirmed", "header_hash", "coin_id", "root_hash", "leaf_hash", "proof"}

\* C26: the body of every /stamp request has the hash as its only member
\* (no salt, no file bytes), so two stampings with the same hash string and
\* different salts send identical requests; the salt is put into the proof
\* locally, after the response has arrived
C26_OnlyHashIsSent ==
    /\ Len(netCalls) = Len(sSubmits)
    /\ \A c \in 1..Len(netCalls) :
          /\ DOMAIN netCalls[c] = {"url", "hash"}
          /\ netCalls[c].url = "/stamp"
          /\ netCalls[c].hash = sSubmits[c].hash
    /\ \A c1, c2 \in 1..Len(netCalls) :
          sSubmits[c1].hash = sSubmits[c2].hash => netCalls[c1] = netCalls[c2]
    /\ \A d \in 1..Len(sDownloads) :
          LET submit == sSubmits[sDownloads[d].submit] IN
          /\ submit.pc = "done"
          /\ sDownloads[d].content.salt = submit.salt
          /\ \A f \in ArtifactFields : sDownloads[d].content[f] = submit.data[f]

C26_Witness ==
    /\ Len(sSubmits) = 2
    /\ sSubmits[1].hash = sSubmits[2].hash
    /\ sSubmits[1].salt # sSubmits[2].salt
    /\ netCalls[1] = netCalls[2]
    /\ Len(sDownloads) = 2
    /\ sDownloads[1].content.salt # sDownloads[2].content.salt

\* C28: whenever submission is enabled (hash non-empty, not calculating) and
\* the hash is not the failure text, the hash in state is the salted digest of
\* the most recently selected file under the salt in state
C28_HashMatchesSaltAndFile ==
    (sHash # <<>> /\ ~sIsCalculating /\ sHash # ErrorCalculatingHash) =>
        sHash = calculateSaltedSHA256(sSelected[Len(sSelected)].bytes, sSalt)

\* C29: the hash of a /stamp request is never the text "Error calculating
\* hash"
C29_SentinelNeverSent ==
    \A c \in 1..Len(netCalls) : netCalls[c].hash # ErrorCalculatingHash

\* C30: a proof file written by a refresh carries the salt of the artifact
\* the page held, whenever that artifact has one
C30_RefreshKeepsSalt ==
    \A d \in 1..Len(downloads) :
        downloads[d].current.salt # Undef =>
            downloads[d].content.salt = downloads[d].current.salt

\* a hash computation for the currently selected file has not settled
HashPendingForSelected == \E j \in 1..Len(hashJobs) : hashJobs[j] = originalFile

\* C31: once every hash computation has settled without an error, the stored
\* digest is the digest of the most recently selected original file; and the
\* calculating flag is true while a computation for the selected file is
\* pending
C31_DigestOfLatestFile ==
    /\ (/\ hashJobs = <<>>
        /\ originalFile # NoFile
        /\ originalFileHash # ErrorCalculatingHash) =>
            originalFileHash = calculateSHA256(originalFile)
    /\ HashPendingForSelected => isCalculatingHash

\* C32: while the file digest is empty or no artifact is loaded, the three
\* result slots are null; a run that was in flight when the input was
\* cleared does not fill them again
C32_ResultsClearedWithInputs ==
    (originalFileHash = <<>> \/ proofData = null) =>
        verificationResults = NullResults

\* a step of a refresh operation: its request is sent or its fetch settles
RefreshStep == refreshes' # refreshes

\* C33: a refresh operation, whatever its outcome, leaves the loaded artifact,
\* the file digest and the three result slots unchanged and starts no run; of
\* the page state it changes only the checking flag and the update message
C33_RefreshFrame ==
    [][RefreshStep =>
          UNCHANGED <<originalFile, originalFileHash, isCalculatingHash, proofData,
                      proofParseError, verificationResults, hashJobs, runs>>]_vars

C33_Witness ==
    /\ downloads # <<>>
    /\ refreshes = <<>>
    /\ ~isCheckingForUpdate
    /\ updateMessage = "Updated proof downloaded successfully!"
    /\ proofData = downloads[1].current

\* the verdict of an outcome: whether it passed and why it failed
Verdict(outcome) == [passed |-> outcome.passed, failureReason |-> outcome.failureReason]
FailedVerdict(reason) == [passed |-> FALSE, failureReason |-> reason]

\* the verdict ChainAnchorVerifier reaches for an artifact when the coin
\* index and the block index answer as given (a response that was never
\* needed is null)
ChainVerdict(proof, coinResponse, blockResponse, currentTime) ==
    IF ~allFieldsPresent(proof) THEN Verdict(missingDataOutcome(proof))
    ELSE IF coinResponse = null THEN FailedVerdict("no coin response")
    ELSE IF coinResponseThrows(coinResponse) THEN Verdict(caughtErrorOutcome)
    ELSE IF coinResponseUnsuccessful(coinResponse) THEN FailedVerdict("api-error")
    ELSE IF findMatchingCoin(coinResponse.payload, proof) = null
    THEN FailedVerdict("invalid-data")
    ELSE IF blockResponse = null THEN FailedVerdict("no block response")
    ELSE IF blockResponseThrows(blockResponse) THEN Verdict(caughtErrorOutcome)
    ELSE IF blockResponseUnsuccessful(blockResponse) THEN FailedVerdict("api-error")
    ELSE Verdict(headerOutcome(proof, findMatchingCoin(coinResponse.payload, proof),
                               blockResponse.payload[1], currentTime))

\* one "0x" prefix added to a bare value, or removed from a prefixed one
Toggle0x(s) ==
    IF s = Undef THEN s
    ELSE IF Len(s) >= 2 /\ s[1] = Chr("0") /\ s[2] = Chr("x") THEN SubSeq(s, 3, Len(s))
    ELSE <<Chr("0"), Chr("x")>> \o s

HasRecords(resp) == resp # null /\ resp.payload # UndefPayload

ToggledCoinResponses(resp) ==
    IF ~HasRecords(resp) THEN {}
    ELSE {[resp EXCEPT !.payload[i].parent_coin_info = Toggle0x(@)] :
             i \in 1..Len(resp.payload)}

ToggledBlockResponses(resp) ==
    IF ~HasRecords(resp) THEN {}
    ELSE {[resp EXCEPT !.payload[1].header_hash = Toggle0x(@)]}

\* C34: the verdict of ChainAnchorVerifier is the same when one "0x" prefix
\* is added to or removed from the artifact's header_hash, the block record's
\* header_hash or one coin record's parent_coin_info; coin_id is compared as
\* given, so an artifact whose coin_id has the prefix fails with invalid-data
\* whenever the coin index answers
C34_PrefixDoesNotChangeVerdict ==
    cPc = "returned" =>
        LET verdict == Verdict(cResult) IN
        /\ verdict = ChainVerdict(cProof, cCoinResponse, cBlockResponse, cCurrentTime)
        /\ verdict = ChainVerdict([cProof EXCEPT !.header_hash = Toggle0x(@)],
                                  cCoinResponse, cBlockResponse, cCurrentTime)
        /\ \A resp \in ToggledCoinResponses(cCoinResponse) :
              verdict = ChainVerdict(cProof, resp, cBlockResponse, cCurrentTime)
        /\ \A resp \in ToggledBlockResponses(cBlockResponse) :
              verdict = ChainVerdict(cProof, cCoinResponse, resp, cCurrentTime)
        /\ (startsWith0x(cProof.coin_id) /\ Answered(cCoinResponse)) =>
              verdict = FailedVerdict("invalid-data")

C34_Witness ==
    /\ ChainPassed
    /\ cProof.header_hash = Header1
    /\ cBlockResponse.payload[1].header_hash = With0x(Header1)
    /\ cMatchingCoin.parent_coin_info = With0x(Coin1)

\* the steps with every position that is not "left" replaced by "right"
AsRightSteps(steps) ==
    [i \in 1..Len(steps) |->
        IF steps[i].position = "left" THEN steps[i]
        ELSE ProofStep(steps[i].hash, "right")]

\* C35: MerkleVerifier treats every step whose position is not exactly "left"
\* ("right", "LEFT", an unknown value, an absent position) as a right
\* sibling: its outcome is the one for the same steps with those positions
\* set to "right", so no position value fails or errs by itself
C35_NonLeftIsRight ==
    (MerkleReturned /\ Len(mProof.proof) > 0) =>
        mResult = verifyLocalProof([mProof EXCEPT !.proof = AsRightSteps(@)])

C35_Witness ==
    /\ MerkleReturned
    /\ Len(mProof.proof) = 2
    /\ mProof.proof[1].position = "LEFT"
    /\ mProof.proof[2].position = "undefined"
    /\ mResult.passed

\* a proof file was handed to the page and its load completed
ProofLoadStep == events' = events + 1 /\ hashJobs' = hashJobs

\* C36: after every proof-file load exactly one holds: an artifact is stored
\* and the parse-error text is empty, or no artifact is stored and the
\* parse-error text is not empty
C36_ArtifactOrParseError ==
    [][ProofLoadStep =>
          \/ proofData' # null /\ proofParseError' = ""
          \/ proofData' = null /\ proofParseError' # ""]_vars

\* C37: provided every awaited operation settles, each busy flag that is set
\* is cleared again: the calculating flag of either page, the submitting
\* flag and the checking flag, on the success path and on every error path
C37_BusyFlagsCleared ==
    /\ sIsCalculating ~> ~sIsCalculating
    /\ sIsSubmitting ~> ~sIsSubmitting
    /\ isCalculatingHash ~> ~isCalculatingHash
    /\ isCheckingForUpdate ~> ~isCheckingForUpdate

C37_Witness ==
    /\ sHash = ErrorCalculatingHash
    /\ ~sIsCalculating
    /\ Len(sSubmits) = 2
    /\ sSubmits[1].pc = "caught"
    /\ sSubmits[2].pc = "done"
    /\ ~sIsSubmitting

\* C38: isProofConfirmed(artifact) is true exactly when ChainAnchorVerifier's
\* precondition check lets it go on to the network calls, that is exactly
\* when it does not return a missing-data outcome
C38_ConfirmedIffProceeds ==
    (cProof # null /\ cPc # "start") =>
        /\ isProofConfirmed(cProof) <=> netCalls # <<>>
        /\ cPc = "returned" =>
              (isProofConfirmed(cProof) <=> cResult.failureReason # "missing-data")

C38_Witness ==
    /\ cPc = "returned"
    /\ isProofConfirmed(cProof)
    /\ cProof.coin_id = With0x(Coin1)
    /\ cResult.failureReason = "invalid-data"
    /\ Len(netCalls) = 1

====
